---- MODULE Spec2Model ----
(***************************************************************************)
(* Verification model of the option pricing platform.                      *)
(*                                                                         *)
(*  - merton.py          MertonJumpModel: constructor, simulate_terminal_  *)
(*                       price, terminal_price_stream, payoff_stream,      *)
(*                       price_paths  (specification Spec)                 *)
(*  - descriptors.py     NonNegativeFloat, PositiveInt                     *)
(*  - jump_diffusion.py  JumpProcess, MertonJumpModel: constructor,        *)
(*                       simulate_path, simulate_terminal_prices           *)
(*                       (specification SpecJD)                            *)
(*                                                                         *)
(* Python floats are modelled as exact rationals <<n, d>> (d > 0, lowest   *)
(* terms).  math.exp is modelled by the exponential of base 2 on integer   *)
(* arguments (Exp(0) = 1, Exp(a + b) = Exp(a) * Exp(b), strictly           *)
(* increasing, strictly positive); the inputs are chosen so that every     *)
(* argument handed to Exp is an integer and every argument handed to Sqrt  *)
(* is a perfect square.  Rounding, underflow and overflow of IEEE doubles  *)
(* are outside the model.                                                  *)
(***************************************************************************)
EXTENDS Integers, Sequences, FiniteSets, TLC

\* ------------------------------------------------------------------------
\* Bounds of the model
\* ------------------------------------------------------------------------
\* largest path count a caller requests from a stream or from price_paths
MaxPaths == 2
\* largest jump count one Poisson draw returns
MaxJumps == 2
\* number of next() calls a consumer makes on a finished generator
MaxExtraPulls == 2

\* ------------------------------------------------------------------------
\* Exact rational arithmetic standing for Python float arithmetic
\* ------------------------------------------------------------------------
Abs(x) == IF x < 0 THEN -x ELSE x

RECURSIVE GCD(_, _)
GCD(a, b) == IF b = 0 THEN a ELSE GCD(b, a % b)

\* the rational n/d in lowest terms with a positive denominator (d # 0)
Norm(n, d) ==
    LET g == GCD(Abs(n), Abs(d))
        s == IF d < 0 THEN -1 ELSE 1
    IN  << (s * n) \div g, (s * d) \div g >>

Rat(n) == << n, 1 >>
RAdd(x, y) ==
    LET g == GCD(x[2], y[2])
    IN  Norm(x[1] * (y[2] \div g) + y[1] * (x[2] \div g), (x[2] \div g) * y[2])
RNeg(x) == << -x[1], x[2] >>
RSub(x, y) == RAdd(x, RNeg(y))
RMul(x, y) ==
    LET g1 == GCD(Abs(x[1]), y[2])
        g2 == GCD(Abs(y[1]), x[2])
    IN  Norm((x[1] \div g1) * (y[1] \div g2), (x[2] \div g2) * (y[2] \div g1))
\* x / y for y # 0
RDiv(x, y) == RMul(x, Norm(y[2], y[1]))
RLt(x, y) == RSub(x, y)[1] < 0
RLe(x, y) == RSub(x, y)[1] <= 0
RPos(x) == x[1] > 0
RMax(x, y) == IF RLt(x, y) THEN y ELSE x
IsInt(x) == x[2] = 1
Half == << 1, 2 >>

\* math.exp, in base 2, on an integer argument
Exp(x) == IF x[1] >= 0 THEN << 2 ^ x[1], 1 >> ELSE << 1, 2 ^ (-x[1]) >>

\* math.sqrt on a perfect square
IsSquare(x) ==
    /\ \E r \in 0..x[1] : r * r = x[1]
    /\ \E r \in 1..x[2] : r * r = x[2]
Sqrt(x) ==
    << CHOOSE r \in 0..x[1] : r * r = x[1], CHOOSE r \in 1..x[2] : r * r = x[2] >>

\* int(x) of a float: truncation toward zero
TruncInt(x) ==
    IF x[1] >= 0 THEN x[1] \div x[2] ELSE -((-x[1]) \div x[2])

\* ------------------------------------------------------------------------
\* descriptors.py
\* ------------------------------------------------------------------------
\* NonNegativeFloat.__set__ on a numeric value: the exception raised, or "ok"
NonNegativeFloat_set(value) ==
    IF RLt(value, Rat(0)) THEN "NegativeValueError" ELSE "ok"

\* PositiveInt.__set__ with the comparison value < 0 in place of value <= 0
PositiveInt_set_AcceptsZero(value) ==
    IF value < 0 THEN "NegativeValueError" ELSE "ok"

\* PositiveInt.__set__ on an int value: the exception raised, or "ok"
PositiveInt_set(value) ==
    IF value <= 0 THEN "NegativeValueError" ELSE "ok"

\* ------------------------------------------------------------------------
\* merton.py: JumpParameters and MertonJumpModel.__init__
\* ------------------------------------------------------------------------
\* JumpParameters is a plain dataclass: any three numbers are accepted
JumpParameters(intensity, mean_jump, jump_vol) ==
    [intensity |-> intensity, mean_jump |-> mean_jump, jump_vol |-> jump_vol]

\* the jump parameter triples the callers pass in
JumpParamSet ==
    { JumpParameters(0, 0, 0), JumpParameters(2, 0, 0),
      JumpParameters(2, -1, 0), JumpParameters(2, -1, 2),
      JumpParameters(-2, 0, 0), JumpParameters(2, 0, -2) }

SpotSet == {-1, 0, 2}
RateSet == {-1, 0, 1}
VolatilitySet == {-2, 0, 2}
MaturitySet == {-1, 0, 1, 2}
StepsSet == {-1, 0, 1, 2}
StrikeSet == {1, 2}

CtorArgs ==
    [spot : SpotSet, rate : RateSet, volatility : VolatilitySet,
     jump_params : JumpParamSet, maturity : MaturitySet, steps : StepsSet]

NoArgs ==
    [spot |-> 0, rate |-> 0, volatility |-> 0,
     jump_params |-> JumpParameters(0, 0, 0), maturity |-> 0, steps |-> 0]

\* the attribute dictionary of an instance before __init__ has stored anything
NoModel ==
    [exists |-> FALSE, spot |-> Rat(0), rate |-> Rat(0), volatility |-> Rat(0),
     jump_params |-> JumpParameters(0, 0, 0), steps |-> 0,
     delta_t |-> Rat(0), drift_correction |-> Rat(0)]

\* lambda * (exp(mean_jump + 0.5 * jump_vol**2) - 1)
DriftCorrection(jp) ==
    RMul(Rat(jp.intensity),
         RSub(Exp(RAdd(Rat(jp.mean_jump),
                       RMul(Half, Rat(jp.jump_vol * jp.jump_vol)))),
              Rat(1)))

\* The first exception MertonJumpModel.__init__ raises on the arguments a,
\* in the order of its statements, or "ok".
MertonInitError(a) ==
    IF a.maturity <= 0 THEN "PricingError"
    ELSE IF NonNegativeFloat_set(Rat(a.spot)) # "ok"
         THEN NonNegativeFloat_set(Rat(a.spot))
    ELSE IF NonNegativeFloat_set(Rat(a.rate)) # "ok"
         THEN NonNegativeFloat_set(Rat(a.rate))
    ELSE IF NonNegativeFloat_set(Rat(a.volatility)) # "ok"
         THEN NonNegativeFloat_set(Rat(a.volatility))
    ELSE IF PositiveInt_set(a.steps) # "ok" THEN PositiveInt_set(a.steps)
    ELSE IF a.steps = 0 THEN "ZeroDivisionError"
    ELSE NonNegativeFloat_set(Norm(a.maturity, a.steps))

\* The instance MertonJumpModel.__init__ leaves behind when it raises nothing.
MertonInitObject(a) ==
    [exists |-> TRUE,
     spot |-> Rat(a.spot), rate |-> Rat(a.rate),
     volatility |-> Rat(a.volatility),
     jump_params |-> a.jump_params,
     steps |-> a.steps,
     delta_t |-> Norm(a.maturity, a.steps),
     drift_correction |-> DriftCorrection(a.jump_params)]

\* (rate - drift_correction - 0.5 * volatility**2) * delta_t
Drift(m) ==
    RMul(RSub(RSub(m.rate, m.drift_correction),
              RMul(Half, RMul(m.volatility, m.volatility))),
         m.delta_t)

\* The arguments on which the exact arithmetic of this model can follow the
\* constructed instance: every square root is rational, every exponent an
\* integer.
Representable(a) ==
    MertonInitError(a) = "ok" =>
        LET m == MertonInitObject(a)
        IN  /\ IsSquare(m.delta_t)
            /\ IsInt(Drift(m))
            /\ IsInt(RMul(m.volatility, Sqrt(m.delta_t)))
            /\ IsInt(RMul(RMul(m.rate, Rat(m.steps)), m.delta_t))

\* ------------------------------------------------------------------------
\* merton.py: the random draws of one time step
\* ------------------------------------------------------------------------
\* outcomes of random.gauss(0, 1)
Z == {-1, 0, 1}
\* outcomes of one standard normal behind np.random.normal(loc, scale)
W == {-1, 1}

RECURSIVE SumSeq(_)
SumSeq(s) == IF s = << >> THEN 0 ELSE Head(s) + SumSeq(Tail(s))

\* outcomes of np.random.poisson(lam) for lam >= 0
PoissonOutcomes(lam) == IF lam[1] = 0 THEN {0} ELSE 0..MaxJumps

\* np.random.poisson raises ValueError on lam < 0
PoissonRaises(lam) == RLt(lam, Rat(0))

\* np.random.normal raises ValueError on scale < 0
NormalRaises(scale) == scale < 0

\* np.random.normal(loc, scale, size = n).sum() for the standard normals ws
JumpTerm(jp, ws) ==
    Rat(Len(ws) * jp.mean_jump + jp.jump_vol * SumSeq(ws))

\* price * exp(drift + diffusion + jump_term) for the draws z and jump_term
StepPrice(m, price, z, jump_term) ==
    LET diffusion == RMul(RMul(m.volatility, Sqrt(m.delta_t)), Rat(z))
    IN  RMul(price, Exp(RAdd(RAdd(Drift(m), diffusion), jump_term)))

\* the samples one completed loop iteration has drawn: z from random.gauss,
\* jump_count from np.random.poisson and the jump sizes ws that
\* np.random.normal(size=jump_count) returned (none when jump_count = 0)
StepDraws(ws) == 1 + 1 + Len(ws)

\* ------------------------------------------------------------------------
\* merton.py: the generator objects and price_paths
\* ------------------------------------------------------------------------
PathsSet == 0..MaxPaths

\* no generator object
NoGen ==
    [kind |-> "none", owner |-> "none", paths |-> 0, strike |-> Rat(0),
     i |-> 0, state |-> "none", yielded |-> 0, last |-> Rat(0)]

\* the generator object a call of terminal_price_stream / payoff_stream
\* returns: no statement of the body has run yet
NewGen(kind, owner, paths, strike) ==
    [kind |-> kind, owner |-> owner, paths |-> paths, strike |-> Rat(strike),
     i |-> 0, state |-> "created", yielded |-> 0, last |-> Rat(0)]

\* range(paths + 1) in place of range(paths)
HasNext_OneMore(g) == g.i <= g.paths

\* for _ in range(paths): is there a further iteration?
HasNext(g) == g.i < g.paths

\* a stream that starts over when it is iterated again (a re-iterable
\* object in place of a generator)
ResumeFinished_Restart(g) == [g EXCEPT !.state = "created", !.i = 0]

\* next() on a generator whose body has returned or raised: it stays finished
ResumeFinished(g) == g

\* elements a full drain of the stream would still produce
Remaining(g) == IF g.state = "finished" THEN 0 ELSE g.paths - g.i

\* the element the stream yields for the terminal price: payoff_stream maps
\* it through max(terminal - strike, 0.0)
Element(g, terminal) ==
    IF g.kind = "payoff" THEN RMax(RSub(terminal, g.strike), Rat(0))
    ELSE terminal

NoSim == [active |-> FALSE, step |-> 0, price |-> Rat(0),
          jump_count |-> 0, draws |-> 0]

NoCall == [state |-> "idle", paths |-> 0, strike |-> Rat(0),
           total |-> Rat(0), count |-> 0, result |-> Rat(0)]

\* price_paths returning the discounted total without the division
PricePathsResult_Sum(m, total, count) ==
    RMul(Exp(RMul(RMul(RNeg(m.rate), Rat(m.steps)), m.delta_t)), total)

\* math.exp(-rate * steps * delta_t) * total / max(count, 1)
PricePathsResult(m, total, count) ==
    RDiv(RMul(Exp(RMul(RMul(RNeg(m.rate), Rat(m.steps)), m.delta_t)), total),
         Rat(IF count > 1 THEN count ELSE 1))

\* ------------------------------------------------------------------------
\* models.py, utils.py, jump_diffusion.py: JumpDiffusionParams, JumpProcess
\* and the constructor of jump_diffusion.MertonJumpModel
\* ------------------------------------------------------------------------
\* validate_positive: the exception raised, or "ok"
validate_positive(value) ==
    IF value <= 0 THEN "InvalidRangeException" ELSE "ok"

\* validate_non_negative: the exception raised, or "ok"
validate_non_negative(value) ==
    IF value < 0 THEN "NegativeValueException" ELSE "ok"

\* utils.NonNegativeFloat.__set__ on a numeric value
utils_NonNegativeFloat_set(value) ==
    IF value < 0 THEN "NegativeValueException" ELSE "ok"

\* JumpDiffusionParams.__post_init__ on (jump_intensity, jump_mean, jump_std)
JumpDiffusionParams_post_init(p) ==
    IF p.intensity < 0 THEN "ValueError"
    ELSE IF p.std < 0 THEN "ValueError"
    ELSE "ok"

\* JumpProcess.__init__: the three descriptor assignments in order
JumpProcess_init(p) ==
    IF utils_NonNegativeFloat_set(p.intensity) # "ok"
    THEN utils_NonNegativeFloat_set(p.intensity)
    ELSE IF utils_NonNegativeFloat_set(p.mean) # "ok"
    THEN utils_NonNegativeFloat_set(p.mean)
    ELSE utils_NonNegativeFloat_set(p.std)

JDParams(intensity, mean, std) ==
    [intensity |-> intensity, mean |-> mean, std |-> std]

\* the (jump_intensity, jump_mean, jump_std) triples the callers pass in
JDParamSet ==
    { JDParams(0, 0, 0), JDParams(2, 0, 0), JDParams(2, 0, 2),
      JDParams(2, 1, 0), JDParams(2, -1, 0), JDParams(-2, 0, 0),
      JDParams(2, 0, -2) }

InitialPriceSet == {0, 2}
JDRateSet == {-1, 0, 1}
JDVolatilitySet == {-2, 0, 2}
TimeHorizonSet == {0, 1, 2}
DtSet == {0, 1, 4}

JDCtorArgs ==
    [initial_price : InitialPriceSet, risk_free_rate : JDRateSet,
     volatility : JDVolatilitySet, jump_params : JDParamSet,
     time_horizon : TimeHorizonSet, dt : DtSet]

JDNoArgs ==
    [initial_price |-> 0, risk_free_rate |-> 0, volatility |-> 0,
     jump_params |-> JDParams(0, 0, 0), time_horizon |-> 0, dt |-> 0]

JDNoModel ==
    [exists |-> FALSE, initial_price |-> Rat(0), risk_free_rate |-> Rat(0),
     volatility |-> Rat(0), time_horizon |-> Rat(0), dt |-> Rat(0),
     jump_process |-> JDParams(0, 0, 0), num_steps |-> 0]

\* The first exception raised while building JumpDiffusionParams and then
\* jump_diffusion.MertonJumpModel from the arguments a, or "ok".
JDInitError(a) ==
    IF JumpDiffusionParams_post_init(a.jump_params) # "ok"
    THEN JumpDiffusionParams_post_init(a.jump_params)
    ELSE IF validate_positive(a.initial_price) # "ok"
    THEN validate_positive(a.initial_price)
    ELSE IF validate_non_negative(a.risk_free_rate) # "ok"
    THEN validate_non_negative(a.risk_free_rate)
    ELSE IF validate_non_negative(a.volatility) # "ok"
    THEN validate_non_negative(a.volatility)
    ELSE IF validate_positive(a.time_horizon) # "ok"
    THEN validate_positive(a.time_horizon)
    ELSE IF validate_positive(a.dt) # "ok"
    THEN validate_positive(a.dt)
    ELSE JumpProcess_init(a.jump_params)

\* self.num_steps = int(time_horizon / dt)
NumSteps(time_horizon, dt) == TruncInt(Norm(time_horizon, dt))

\* The instance jump_diffusion.MertonJumpModel.__init__ leaves behind.
JDInitObject(a) ==
    [exists |-> TRUE,
     initial_price |-> Rat(a.initial_price),
     risk_free_rate |-> Rat(a.risk_free_rate),
     volatility |-> Rat(a.volatility),
     time_horizon |-> Rat(a.time_horizon),
     dt |-> Rat(a.dt),
     jump_process |-> a.jump_params,
     num_steps |-> NumSteps(a.time_horizon, a.dt)]

\* JumpProcess.drift_correction
JumpProcess_drift_correction(p) ==
    RMul(Rat(p.intensity),
         RSub(Exp(RAdd(Rat(p.mean), RMul(Half, Rat(p.std * p.std)))),
              Rat(1)))

\* risk_free_rate - jump_process.drift_correction - 0.5 * volatility**2
JDDrift(m) ==
    RSub(RSub(m.risk_free_rate, JumpProcess_drift_correction(m.jump_process)),
         RMul(Half, RMul(m.volatility, m.volatility)))

\* The arguments on which the exact arithmetic can follow the instance.
JDRepresentable(a) ==
    JDInitError(a) = "ok" =>
        LET m == JDInitObject(a)
        IN  /\ IsSquare(m.dt)
            /\ IsInt(RMul(JDDrift(m), m.dt))
            /\ IsInt(RMul(m.volatility, Sqrt(m.dt)))

\* outcomes of rng.standard_normal()
Z1 == {-1, 0, 1}
Z2 == {-1, 0, 1}

\* math.exp(drift * dt + vol_sqrt_dt * z1)
DiffusionTerm(m, z1) ==
    Exp(RAdd(RMul(JDDrift(m), m.dt),
             RMul(RMul(m.volatility, Sqrt(m.dt)), Rat(z1))))

\* math.exp(mean + std * z2) - 1 if jump_occurs > 0, else 0
JumpSize(m, z2, jump_occurs) ==
    IF jump_occurs > 0
    THEN RSub(Exp(Rat(m.jump_process.mean + m.jump_process.std * z2)), Rat(1))
    ELSE Rat(0)

\* prices[i - 1] * (diffusion_term + jump_size)
JDStepPrice(m, prev, z1, z2, jump_occurs) ==
    RMul(prev, RAdd(DiffusionTerm(m, z1), JumpSize(m, z2, jump_occurs)))

\* np.zeros(n)
RECURSIVE Zeros(_)
Zeros(n) == IF n <= 0 THEN << >> ELSE << Rat(0) >> \o Zeros(n - 1)

JDNoRun == [active |-> FALSE, owner |-> "none", i |-> 0, prices |-> << >>]

JDNoGen == [state |-> "none", num_simulations |-> 0, i |-> 0, yielded |-> 0,
            last |-> Rat(0)]

\* for i in range(num_simulations): is there a further iteration?
JDHasNext(g) == g.i < g.num_simulations

\* ------------------------------------------------------------------------
\* strategies.py: StrategyRegistry
\* ------------------------------------------------------------------------
\* register calls a caller makes once strategies.py has been imported
MaxRegisters == 2

\* the strategy functions strategies.py defines
ModuleFns ==
    {"black_scholes_strategy", "jump_diffusion_mc_strategy",
     "cox_ross_rubinstein", "jarrow_rudd_model", "stand_trinomial_tree",
     "adaptative_trinomial_tree"}

\* a PricingStrategy a caller defines and registers
UserFns == {"black_scholes_strategy", "user_strategy"}

\* the keys used with the registry: those of the module-level registrations
\* and one that strategies.py never registers
RegistryKeys ==
    {"black_scholes", "jump_mc", "cox ross Rubinstein", "jarrow Rudd",
     "trinomial tree", "adaptative trinomial tree", "custom"}

\* the keys a caller registers under
UserKeys == {"black_scholes", "jump_mc", "custom"}

_default_key == "black_scholes"

\* the module-level registrations with the statement for the default key
\* replaced by a second one for "jump_mc"
ModuleRegistrations_NoDefault ==
    << << "jump_mc", "jump_diffusion_mc_strategy" >>,
       << "jump_mc", "jump_diffusion_mc_strategy" >>,
       << "cox ross Rubinstein", "cox_ross_rubinstein" >>,
       << "jarrow Rudd", "jarrow_rudd_model" >>,
       << "trinomial tree", "stand_trinomial_tree" >>,
       << "adaptative trinomial tree", "adaptative_trinomial_tree" >> >>

\* the StrategyRegistry.register(...) statements at the end of strategies.py
ModuleRegistrations ==
    << << "black_scholes", "black_scholes_strategy" >>,
       << "jump_mc", "jump_diffusion_mc_strategy" >>,
       << "cox ross Rubinstein", "cox_ross_rubinstein" >>,
       << "jarrow Rudd", "jarrow_rudd_model" >>,
       << "trinomial tree", "stand_trinomial_tree" >>,
       << "adaptative trinomial tree", "adaptative_trinomial_tree" >> >>

\* register that keeps the function a key already has
register_KeepsFirst(s, name, strategy) ==
    IF s[name] = "absent" THEN [s EXCEPT ![name] = strategy] ELSE s

\* cls._strategies[name] = strategy
register(s, name, strategy) == [s EXCEPT ![name] = strategy]

\* return cls._strategies[name]: a dict lookup, KeyError on a missing key
get(s, name) ==
    IF s[name] = "absent" THEN [outcome |-> "KeyError", result |-> "none"]
    ELSE [outcome |-> "returned", result |-> s[name]]

\* return cls._strategies[cls._default_key]
default_strategy(s) ==
    IF s[_default_key] = "absent"
    THEN [outcome |-> "KeyError", result |-> "none"]
    ELSE [outcome |-> "returned", result |-> s[_default_key]]

\* the "paths" entry of the jump_mc_settings literal
SettingsPaths == 200

\* the jump_mc_settings class attribute as the class body creates it
DefaultJumpMcSettings ==
    [paths |-> SettingsPaths, intensity |-> << 3, 4 >>,
     mean_jump |-> << -3, 5 >>, jump_vol |-> << 1, 4 >>]

\* a keyword argument left at None, and one that is given
NoneArg == [given |-> FALSE, value |-> 0]
Given(v) == [given |-> TRUE, value |-> v]
NoneFloat == [given |-> FALSE, value |-> Rat(0)]

\* the keyword arguments callers pass to configure_jump_mc
ConfigureArgSet ==
    [paths : {NoneArg, Given(1)},
     intensity : {NoneFloat, Given(Rat(1))},
     mean_jump : {NoneFloat, Given(Rat(0))},
     jump_vol : {NoneFloat, Given(Rat(0))}]

\* each entry of jump_mc_settings is replaced when its argument is not None
configure_jump_mc(settings, a) ==
    [paths |-> IF a.paths.given THEN a.paths.value ELSE settings.paths,
     intensity |-> IF a.intensity.given THEN a.intensity.value
                   ELSE settings.intensity,
     mean_jump |-> IF a.mean_jump.given THEN a.mean_jump.value
                   ELSE settings.mean_jump,
     jump_vol |-> IF a.jump_vol.given THEN a.jump_vol.value
                  ELSE settings.jump_vol]

\* ------------------------------------------------------------------------
\* strategies.py: the strategy functions
\* ------------------------------------------------------------------------
GreekNames == {"delta", "gamma", "vega", "theta", "rho"}

\* the options handed to a strategy: attributes maturity, volatility,
\* strike, spot and rate
StrategyOptionSet ==
    [spot : {95, 105}, strike : {100}, maturity : {0, 1},
     volatility : {0, 1}, rate : {0}]

NoStrategyOption ==
    [spot |-> 0, strike |-> 0, maturity |-> 0, volatility |-> 0, rate |-> 0]

NoGreeks == [k \in {} |-> Rat(0)]

\* what a call of a strategy function leaves behind: the exception or the
\* StrategyResult, and the path count, jump parameters and steps it used
NoRun ==
    [outcome |-> "none", price |-> Rat(0), greeks |-> NoGreeks,
     paths |-> 0, jump_params |-> JumpParameters(Rat(0), Rat(0), Rat(0)),
     steps |-> 0]

\* if maturity <= 0 or vol <= 0
Degenerate(option) == option.maturity <= 0 \/ option.volatility <= 0

\* black_scholes_strategy on its early-return branch. The closed form after
\* it needs log, erf and square roots of arbitrary reals; the options this
\* function is applied to here are the degenerate ones.
black_scholes_strategy(option) ==
    CASE Degenerate(option) ->
        [NoRun EXCEPT
            !.outcome = "returned",
            !.price = RMax(Rat(option.spot - option.strike), Rat(0)),
            !.greeks = [k \in {"delta"} |->
                           IF option.spot > option.strike THEN Rat(1)
                           ELSE Rat(0)]]

\* steps = max(10, int(option.maturity * 12))
MinSteps == 10
MonthsPerYear == 12
StrategySteps(option) ==
    IF option.maturity * MonthsPerYear > MinSteps
    THEN option.maturity * MonthsPerYear ELSE MinSteps

\* paths = 200
StrategyPaths == 200

\* the arguments jump_diffusion_mc_strategy passes to MertonJumpModel
StrategyModelArgs(option) ==
    [spot |-> option.spot, rate |-> option.rate,
     volatility |-> option.volatility,
     jump_params |-> JumpParameters(<< 3, 4 >>, << -3, 5 >>, << 1, 4 >>),
     maturity |-> option.maturity, steps |-> StrategySteps(option)]

\* jump_diffusion_mc_strategy: the model it builds, the price_paths call it
\* makes and the StrategyResult around the value that call returns
\* (estimate: the Monte Carlo mean of the 200 simulated payoffs)
jump_diffusion_mc_strategy(option, estimate) ==
    LET a == StrategyModelArgs(option)
    IN  IF MertonInitError(a) # "ok"
        THEN [NoRun EXCEPT !.outcome = MertonInitError(a),
                           !.jump_params = a.jump_params,
                           !.steps = a.steps]
        ELSE [outcome |-> "returned", price |-> estimate,
              greeks |-> [k \in GreekNames |-> Rat(0)],
              paths |-> StrategyPaths, jump_params |-> a.jump_params,
              steps |-> a.steps]

\* cox_ross_rubinstein, jarrow_rudd_model, stand_trinomial_tree and
\* adaptative_trinomial_tree: price 0.0 and five Greeks of 0.0
quant_team_stub(option) ==
    [NoRun EXCEPT !.outcome = "returned",
                  !.greeks = [k \in GreekNames |-> Rat(0)]]

\* values price_paths can return to the strategy
EstimateSet == {Rat(0), Rat(3)}

NoRegCall ==
    [op |-> "none", key |-> "none", fn |-> "none", outcome |-> "none",
     option |-> NoStrategyOption, run |-> NoRun]

\* ------------------------------------------------------------------------
\* factory.py, options.py: EquityJumpCallOption
\* ------------------------------------------------------------------------
\* self._price_cache = None
NoCache == [set |-> FALSE, value |-> Rat(0)]

\* self._merton_model = None
NoOptModel ==
    [exists |-> FALSE, initial_price |-> 0, risk_free_rate |-> 0,
     volatility |-> 0, time_horizon |-> 0, num_steps |-> 0]

NoOption ==
    [exists |-> FALSE, spot |-> 0, strike |-> 0, time_to_maturity |-> 0,
     risk_free_rate |-> 0, volatility |-> 0,
     jump_params |-> JDParams(0, 0, 0), default_pricing_method |-> "none",
     price_cache |-> NoCache, last_pricing_method |-> "None",
     merton_model |-> NoOptModel]

NoOptCall ==
    [op |-> "none", attr |-> "none", value |-> 0, method |-> "none",
     outcome |-> "none", result |-> Rat(0)]

\* the jump parameters options are created with; (2, -1, 0) stands for the
\* default (0.75, -0.6, 0.2) with its negative jump mean
OptJumpParamSet == {JDParams(0, 0, 0), JDParams(2, 0, 0), JDParams(2, -1, 0)}

\* the arguments callers pass to OptionFactory.create_equity_jump_call
OptionArgSet ==
    [spot : {0, 1}, strike : {1}, maturity : {1}, risk_free_rate : {0},
     volatility : {0}, jump_params : OptJumpParamSet]

\* MarketData.__post_init__ on the spot
MarketData_post_init(spot) == IF spot <= 0 THEN "ValueError" ELSE "ok"

\* OptionParameters.__post_init__
OptionParameters_post_init(strike, maturity, volatility) ==
    IF strike <= 0 THEN "ValueError"
    ELSE IF maturity <= 0 THEN "ValueError"
    ELSE IF volatility < 0 THEN "ValueError"
    ELSE "ok"

\* The first exception create_equity_jump_call raises on the arguments a:
\* the three dataclasses, then the property assignments of
\* BaseOption.__init__, or "ok".
OptionCreateError(a) ==
    IF MarketData_post_init(a.spot) # "ok"
    THEN MarketData_post_init(a.spot)
    ELSE IF OptionParameters_post_init(a.strike, a.maturity, a.volatility)
            # "ok"
    THEN OptionParameters_post_init(a.strike, a.maturity, a.volatility)
    ELSE IF JumpDiffusionParams_post_init(a.jump_params) # "ok"
    THEN JumpDiffusionParams_post_init(a.jump_params)
    ELSE IF validate_positive(a.spot) # "ok" THEN validate_positive(a.spot)
    ELSE IF utils_NonNegativeFloat_set(a.risk_free_rate) # "ok"
    THEN utils_NonNegativeFloat_set(a.risk_free_rate)
    ELSE IF validate_positive(a.strike) # "ok"
    THEN validate_positive(a.strike)
    ELSE IF validate_positive(a.maturity) # "ok"
    THEN validate_positive(a.maturity)
    ELSE utils_NonNegativeFloat_set(a.volatility)

\* the instance EquityJumpCallOption.__init__ leaves behind
OptionObject(a) ==
    [exists |-> TRUE, spot |-> a.spot, strike |-> a.strike,
     time_to_maturity |-> a.maturity, risk_free_rate |-> a.risk_free_rate,
     volatility |-> a.volatility, jump_params |-> a.jump_params,
     default_pricing_method |-> "jump_diffusion_mc",
     price_cache |-> NoCache, last_pricing_method |-> "None",
     merton_model |-> NoOptModel]

\* the spot, strike and time_to_maturity setters with the cache invalidated
\* before the value is validated
set_positive_InvalidatesFirst(o, attr, value) ==
    IF validate_positive(value) # "ok"
    THEN [outcome |-> validate_positive(value),
          opt |-> [o EXCEPT !.price_cache = NoCache]]
    ELSE [outcome |-> "returned",
          opt |-> [o EXCEPT ![attr] = value, !.price_cache = NoCache]]

\* the spot, strike and time_to_maturity setters: validate_positive(value,
\* name); self._x = value (a PositiveFloat descriptor, which accepts what
\* validate_positive accepted); self._invalidate_cache()
set_positive(o, attr, value) ==
    IF validate_positive(value) # "ok"
    THEN [outcome |-> validate_positive(value), opt |-> o]
    ELSE [outcome |-> "returned",
          opt |-> [o EXCEPT ![attr] = value, !.price_cache = NoCache]]

\* the risk_free_rate and volatility setters without _invalidate_cache()
set_non_negative_KeepsCache(o, attr, value) ==
    IF utils_NonNegativeFloat_set(value) # "ok"
    THEN [outcome |-> utils_NonNegativeFloat_set(value), opt |-> o]
    ELSE [outcome |-> "returned", opt |-> [o EXCEPT ![attr] = value]]

\* the risk_free_rate and volatility setters: self._x = value (a
\* NonNegativeFloat descriptor); self._invalidate_cache()
set_non_negative(o, attr, value) ==
    IF utils_NonNegativeFloat_set(value) # "ok"
    THEN [outcome |-> utils_NonNegativeFloat_set(value), opt |-> o]
    ELSE [outcome |-> "returned",
          opt |-> [o EXCEPT ![attr] = value, !.price_cache = NoCache]]

\* the method arguments callers pass to price; "None" is the argument left out
MethodSet == {"None", "jump_diffusion_mc", "JUMP_DIFFUSION_MC", "lsmc",
              "unknown"}

\* name.lower()
Lower(name) ==
    IF name = "JUMP_DIFFUSION_MC" THEN "jump_diffusion_mc" ELSE name

\* get_strategy(name): the strategy class found in PRICING_STRATEGIES under
\* name.lower(), or the exception raised
get_strategy(name) ==
    CASE Lower(name) = "jump_diffusion_mc" -> "JumpDiffusionMCStrategy"
      [] Lower(name) = "lsmc" -> "LSMCStrategy"
      [] OTHER -> "PricingCalculationException"

\* LSMCStrategy.calculate_price: spot * 0.52 + strike * 0.28
LSMC_calculate_price(o) ==
    RAdd(RMul(Rat(o.spot), << 13, 25 >>), RMul(Rat(o.strike), << 7, 25 >>))

\* JumpDiffusionMCStrategy.calculate_price:
\* max(spot - strike, 0) * (1 + jump_intensity * abs(jump_mean) * 0.5)
JumpDiffusionMC_calculate_price(o) ==
    RMul(RMax(Rat(o.spot - o.strike), Rat(0)),
         RAdd(Rat(1),
              RMul(Rat(o.jump_params.intensity * Abs(o.jump_params.mean)),
                   Half)))

\* dt=0.01 in the merton_model property
DailyDt == << 1, 100 >>

\* The exception the MertonJumpModel(...) call of the merton_model property
\* raises, or "ok". validate_positive looks at the sign of dt only, which
\* is the sign of its numerator.
MertonModelError(o) ==
    JDInitError([initial_price |-> o.spot,
                 risk_free_rate |-> o.risk_free_rate,
                 volatility |-> o.volatility,
                 jump_params |-> o.jump_params,
                 time_horizon |-> o.time_to_maturity,
                 dt |-> DailyDt[1]])

\* the model that call builds: num_steps = int(time_horizon / dt)
MertonModelOf(o) ==
    [exists |-> TRUE, initial_price |-> o.spot,
     risk_free_rate |-> o.risk_free_rate, volatility |-> o.volatility,
     time_horizon |-> o.time_to_maturity,
     num_steps |-> TruncInt(RDiv(Rat(o.time_to_maturity), DailyDt))]

\* Monte Carlo means of the payoffs of 10000 random paths
OptEstimateSet == {Rat(0), Rat(1)}

\* _price_with_jump_diffusion on the model m: the discounted mean payoff of
\* the terminal prices of m against the option's strike. With no volatility
\* and no jumps every path of m ends at initial_price * exp(rate * horizon);
\* otherwise the mean is the estimate the random draws give.
price_with_jump_diffusion(o, m, estimate) ==
    IF m.volatility = 0 /\ o.jump_params.intensity = 0
    THEN RMul(Exp(Rat(-(o.risk_free_rate * o.time_to_maturity))),
              RMax(RSub(RMul(Rat(m.initial_price),
                             Exp(Rat(m.risk_free_rate * m.time_horizon))),
                        Rat(o.strike)),
                   Rat(0)))
    ELSE estimate

\* what price leaves behind when it has computed the value v with method m
Priced(o, method, v) ==
    [outcome |-> "returned", result |-> v,
     opt |-> [o EXCEPT !.price_cache = [set |-> TRUE, value |-> v],
                       !.last_pricing_method = method]]

\* a price whose failure drops the cached value
PricingFailed_DropsCache(o) ==
    [outcome |-> "PricingCalculationException", result |-> Rat(0),
     opt |-> [o EXCEPT !.price_cache = NoCache]]

\* what price leaves behind when the try block raised
PricingFailed(o) ==
    [outcome |-> "PricingCalculationException", result |-> Rat(0), opt |-> o]

\* EquityJumpCallOption.price(method)
option_price(o, method_arg, estimate) ==
    LET method == IF method_arg = "None" THEN o.default_pricing_method
                  ELSE method_arg
    IN  IF method = o.last_pricing_method /\ o.price_cache.set
        THEN [outcome |-> "returned", result |-> o.price_cache.value,
              opt |-> o]
        ELSE IF get_strategy(method) = "PricingCalculationException"
        THEN PricingFailed(o)
        ELSE IF method = "jump_diffusion_mc"
        THEN IF o.merton_model.exists
             THEN Priced(o, method,
                         price_with_jump_diffusion(o, o.merton_model,
                                                   estimate))
             ELSE IF MertonModelError(o) # "ok"
             THEN PricingFailed(o)
             ELSE Priced([o EXCEPT !.merton_model = MertonModelOf(o)],
                         method,
                         price_with_jump_diffusion(o, MertonModelOf(o),
                                                   estimate))
        ELSE IF get_strategy(method) = "LSMCStrategy"
        THEN Priced(o, method, LSMC_calculate_price(o))
        ELSE Priced(o, method, JumpDiffusionMC_calculate_price(o))

\* ------------------------------------------------------------------------
\* trade_blotter.py: Trade and TradeBlotter
\* ------------------------------------------------------------------------
\* the length up to which callers fill the blotter
MaxTrades == 2

\* Trade(order, fill_price) with the quantity of its order; OrderInfo
\* rejects a zero quantity
NewTrade(quantity, fill_price) ==
    [kind |-> "Trade", quantity |-> quantity, fill_price |-> Rat(fill_price)]

\* the Trade objects callers build
TradeSet == {NewTrade(1, 3), NewTrade(-2, 1)}

\* an object that is not a Trade, such as a str or an OrderInfo
NonTrade == [kind |-> "str", quantity |-> 0, fill_price |-> Rat(0)]

\* the values callers hand to the blotter
ValueSet == TradeSet \cup {NonTrade}

\* isinstance(value, Trade)
IsTrade(value) == value.kind = "Trade"

\* Trade.notional: abs(self.order.quantity) * self.fill_price
notional(trade) == RMul(Rat(Abs(trade.quantity)), trade.fill_price)

\* the int indices callers use
IndexSet == (-(MaxTrades + 1))..(MaxTrades + 1)

\* the position (from 1) a list of length n gives to the index i of
\* s[i], s[i] = v and del s[i]; 0 when the index is out of range
ListPos(n, i) ==
    IF i >= 0 /\ i < n THEN i + 1
    ELSE IF i < 0 /\ i + n >= 0 THEN i + n + 1
    ELSE 0

\* list.insert(i, v): the index is clamped to 0..len
list_insert(s, i, v) ==
    LET n == Len(s)
        k == IF i >= n THEN n
             ELSE IF i >= 0 THEN i
             ELSE IF i + n >= 0 THEN i + n
             ELSE 0
    IN  SubSeq(s, 1, k) \o << v >> \o SubSeq(s, k + 1, n)

\* del s[i] at the position pos
list_delete(s, pos) == SubSeq(s, 1, pos - 1) \o SubSeq(s, pos + 1, Len(s))

\* TradeBlotter.insert(index, value): TypeError for a value that is not a
\* Trade, else self._trades.insert(index, value)
TradeBlotter_insert(s, index, value) ==
    IF ~IsTrade(value) THEN [outcome |-> "TypeError", trades |-> s]
    ELSE [outcome |-> "returned", trades |-> list_insert(s, index, value)]

\* MutableSequence.append(value): self.insert(len(self), value)
TradeBlotter_append(s, value) == TradeBlotter_insert(s, Len(s), value)

RECURSIVE TradeBlotter_extend(_, _)
\* MutableSequence.extend(values): for v in values: self.append(v); the
\* values appended before one is refused stay in the blotter
TradeBlotter_extend(s, values) ==
    IF values = << >> THEN [outcome |-> "returned", trades |-> s]
    ELSE IF TradeBlotter_append(s, Head(values)).outcome # "returned"
    THEN TradeBlotter_append(s, Head(values))
    ELSE TradeBlotter_extend(TradeBlotter_append(s, Head(values)).trades,
                             Tail(values))

\* TradeBlotter.__setitem__(index, value): self._trades[index] = value
TradeBlotter_setitem(s, index, value) ==
    IF ListPos(Len(s), index) = 0
    THEN [outcome |-> "IndexError", trades |-> s]
    ELSE [outcome |-> "returned",
          trades |-> [s EXCEPT ![ListPos(Len(s), index)] = value]]

\* TradeBlotter.__delitem__(index): del self._trades[index]
TradeBlotter_delitem(s, index) ==
    IF ListPos(Len(s), index) = 0
    THEN [outcome |-> "IndexError", trades |-> s]
    ELSE [outcome |-> "returned",
          trades |-> list_delete(s, ListPos(Len(s), index))]

RECURSIVE sum_notional(_)
\* sum(trade.notional for trade in self._trades): the notional attribute of
\* a str raises AttributeError
sum_notional(s) ==
    IF s = << >> THEN [outcome |-> "returned", result |-> Rat(0)]
    ELSE LET front == sum_notional(SubSeq(s, 1, Len(s) - 1))
             last == s[Len(s)]
         IN  IF front.outcome # "returned" THEN front
             ELSE IF ~IsTrade(last)
             THEN [outcome |-> "AttributeError", result |-> Rat(0)]
             ELSE [outcome |-> "returned",
                   result |-> RAdd(front.result, notional(last))]

RECURSIVE NotionalOfTrades(_)
\* the sum over the Trade objects of s of |order quantity| x fill_price
NotionalOfTrades(s) ==
    IF s = << >> THEN Rat(0)
    ELSE RAdd(NotionalOfTrades(Tail(s)),
              IF IsTrade(Head(s))
              THEN RMul(Rat(Abs(Head(s).quantity)), Head(s).fill_price)
              ELSE Rat(0))

\* the pairs of values callers pass to extend
ExtendSet == { << v, w >> : v \in ValueSet, w \in ValueSet }

RECURSIVE CountTrades(_)
\* the number of Trade objects in s
CountTrades(s) ==
    IF s = << >> THEN 0
    ELSE CountTrades(Tail(s)) + (IF IsTrade(Head(s)) THEN 1 ELSE 0)

NoBlotCall ==
    [op |-> "none", index |-> 0, value |-> NonTrade, values |-> << >>,
     outcome |-> "none", result |-> Rat(0)]

\* ------------------------------------------------------------------------
\* greeks_mixin.py, options.py: the Greeks of an EquityJumpCallOption
\* ------------------------------------------------------------------------
\* the attributes GreeksMixin.__init__ assigns: _greeks_cache = None and
\* _greeks_method = "analytical"; delta and rho are entries of the cached
\* dictionary
GreeksMixin_init ==
    [cache |-> "None", method |-> "analytical", computed_with |-> "none",
     delta |-> Rat(0), rho |-> Rat(0)]

\* an object that has neither a _greeks_cache nor a _greeks_method attribute
MissingGreeks ==
    [cache |-> "missing", method |-> "missing", computed_with |-> "none",
     delta |-> Rat(0), rho |-> Rat(0)]

\* The Greeks attributes of a new EquityJumpCallOption. Its __init__ calls
\* super().__init__, which is BaseOption.__init__; BaseOption.__init__ makes
\* no super().__init__ call, so GreeksMixin.__init__, which comes after
\* BaseOption and PricingInterface in the method resolution order, never
\* runs.
GreeksAfterInit == MissingGreeks

\* the method arguments callers pass to calculate_greeks; "None" is the
\* argument left out
GreeksMethodSet == {"None", "analytical", "unknown"}

\* get_greeks_strategy(name)
get_greeks_strategy(name) ==
    IF name = "analytical" THEN "AnalyticalGreeksStrategy" ELSE "ValueError"

\* AnalyticalGreeksStrategy.calculate_greeks: delta = 0.5 for a call,
\* rho = strike * time_to_maturity * 0.5; gamma = 0.02 / (spot * volatility
\* * sqrt_T) divides by zero when the volatility is zero
AnalyticalGreeks(o) ==
    IF o.spot * o.volatility = 0
    THEN [outcome |-> "ZeroDivisionError", delta |-> Rat(0), rho |-> Rat(0)]
    ELSE [outcome |-> "returned", delta |-> Half,
          rho |-> RMul(Rat(o.strike * o.time_to_maturity), Half)]

GreeksRaised(g, exception) ==
    [outcome |-> exception, greeks |-> g]

\* GreeksMixin.calculate_greeks(method) on the option o whose Greeks
\* attributes are g
GreeksMixin_calculate_greeks(o, g, method_arg) ==
    IF method_arg = "None" /\ g.method = "missing"
    THEN GreeksRaised(g, "AttributeError")
    ELSE LET method == IF method_arg = "None" THEN g.method ELSE method_arg
         IN  IF get_greeks_strategy(method) = "ValueError"
             THEN GreeksRaised(g, "ValueError")
             ELSE IF AnalyticalGreeks(o).outcome # "returned"
             THEN GreeksRaised(g, AnalyticalGreeks(o).outcome)
             ELSE [outcome |-> "returned",
                   greeks |-> [g EXCEPT !.cache = "set",
                                        !.computed_with = method,
                                        !.delta = AnalyticalGreeks(o).delta,
                                        !.rho = AnalyticalGreeks(o).rho]]

\* EquityJumpCallOption.calculate_greeks(method): the log line evaluates
\* method or self._greeks_method, then super().calculate_greeks(method)
EquityJumpCallOption_calculate_greeks(o, g, method_arg) ==
    IF method_arg = "None" /\ g.method = "missing"
    THEN GreeksRaised(g, "AttributeError")
    ELSE GreeksMixin_calculate_greeks(o, g, method_arg)

\* the Greek properties read in the runs; gamma, vega, theta and greeks
\* have the same body
GreekPropertySet == {"delta", "rho"}

\* the delta, gamma, vega, theta, rho and greeks properties:
\* if self._greeks_cache is None: self.calculate_greeks()
\* return self._greeks_cache[name]
Greek_property(o, g, name) ==
    IF g.cache = "missing" THEN GreeksRaised(g, "AttributeError")
    ELSE IF g.cache = "None"
    THEN EquityJumpCallOption_calculate_greeks(o, g, "None")
    ELSE [outcome |-> "returned", greeks |-> g]

NoGreeksCall ==
    [op |-> "none", method |-> "none", outcome |-> "none",
     result |-> Rat(0)]

\* ------------------------------------------------------------------------
\* jump_diffusion.py: two MertonJumpModel instances and their generators
\* ------------------------------------------------------------------------
\* calls made on each of the two instances
MaxTwinCalls == 2

Instances == {1, 2}

\* the seed argument: None or an int
SeedSet == {NoneArg, Given(1)}

\* what the operating system hands to an unseeded generator
EntropySet == {2, 3}

\* np.random.default_rng(seed) that never looks at the seed
default_rng_Unseeded(seed, entropy) ==
    [key |-> entropy, pos |-> 0]

\* np.random.default_rng(seed): the state of the new generator is a
\* function of the seed, or of fresh entropy when the seed is None
default_rng(seed, entropy) ==
    [key |-> IF seed.given THEN seed.value ELSE entropy, pos |-> 0]

\* the pos-th output of the bit generator started from key: a fixed
\* function of the two
BitGenerator(key, pos) == ((key + 1) * (pos + 1) + key) % 3

\* rng.standard_normal(): the next output, and the generator advanced
standard_normal(rng) ==
    [value |-> BitGenerator(rng.key, rng.pos) - 1,
     rng |-> [rng EXCEPT !.pos = @ + 1]]

\* rng.poisson(lam): the next output, and the generator advanced
poisson(rng, lam) ==
    [value |-> IF lam[1] = 0 THEN 0 ELSE BitGenerator(rng.key, rng.pos) % 2,
     rng |-> [rng EXCEPT !.pos = @ + 1]]

RECURSIVE simulate_path_loop(_, _, _, _)
\* the loop of simulate_path from index i on: z1, z2 and jump_occurs are
\* drawn from self.rng in this order
simulate_path_loop(m, rng, i, prices) ==
    IF i > m.num_steps THEN [prices |-> prices, rng |-> rng]
    ELSE LET z1 == standard_normal(rng)
             z2 == standard_normal(z1.rng)
             jump_occurs == poisson(z2.rng,
                                RMul(Rat(m.jump_process.intensity), m.dt))
         IN  simulate_path_loop(m, jump_occurs.rng, i + 1,
                 Append(prices,
                        JDStepPrice(m, prices[i], z1.value, z2.value,
                                    jump_occurs.value)))

\* simulate_path on the model m whose generator is in state rng: the array
\* returned and the generator afterwards
simulate_path(m, rng) ==
    simulate_path_loop(m, rng, 1, << m.initial_price >>)

RECURSIVE simulate_terminal_prices(_, _, _)
\* list(model.simulate_terminal_prices(num_simulations)): path[-1] of
\* num_simulations successive simulate_path calls
simulate_terminal_prices(m, rng, num_simulations) ==
    IF num_simulations = 0 THEN [prices |-> << >>, rng |-> rng]
    ELSE LET path == simulate_path(m, rng)
             rest == simulate_terminal_prices(m, path.rng,
                                              num_simulations - 1)
         IN  [prices |-> << path.prices[Len(path.prices)] >> \o rest.prices,
              rng |-> rest.rng]

\* the parameters the two instances are built with
TwinArgSet ==
    [initial_price : {2}, risk_free_rate : {0}, volatility : {2},
     jump_params : {JDParams(0, 0, 0), JDParams(2, 1, 0)},
     time_horizon : {1, 2}, dt : {1}]

\* the calls made on an instance
TwinCallSet ==
    {[op |-> "simulate_path", num_simulations |-> 0],
     [op |-> "simulate_terminal_prices", num_simulations |-> 2]}

NoTwin ==
    [exists |-> FALSE, seed |-> NoneArg, model |-> JDNoModel,
     rng |-> [key |-> 0, pos |-> 0], calls |-> << >>, results |-> << >>]

\* ------------------------------------------------------------------------
\* context_managers.py: DatabaseConnection
\* ------------------------------------------------------------------------
\* with statements executed on DatabaseConnection objects
MaxSessions == 3

\* DatabaseConnection(db_path): no connection yet
DatabaseConnection_init ==
    [conn |-> "None", cursor |-> "None"]

\* DatabaseConnection.__enter__: sqlite3.connect either returns an open
\* connection or raises, and any exception is re-raised as DataIOException
DatabaseConnection_enter(self, connect_ok) ==
    IF connect_ok
    THEN [self |-> [conn |-> "open", cursor |-> "cursor"],
          raised |-> "none"]
    ELSE [self |-> self, raised |-> "DataIOException"]

\* what the body of a with statement ends with: nothing raised, an
\* Exception or a BaseException
BlockExcSet == {"None", "ValueError", "KeyboardInterrupt"}

\* DatabaseConnection.__exit__ without its finally clause: close is skipped
\* when commit or rollback raises
DatabaseConnection_exit_NoFinally(self, exc_type, op_raises) ==
    IF self.conn = "None"
    THEN [self |-> self, commits |-> 0, rollbacks |-> 0, closes |-> 0,
          raised |-> "none", returned |-> FALSE]
    ELSE [self |-> [self EXCEPT !.conn = IF op_raises THEN @ ELSE "closed"],
          commits |-> IF exc_type = "None" THEN 1 ELSE 0,
          rollbacks |-> IF exc_type = "None" THEN 0 ELSE 1,
          closes |-> IF op_raises THEN 0 ELSE 1,
          raised |-> IF op_raises THEN "OperationalError" ELSE "none",
          returned |-> FALSE]

\* DatabaseConnection.__exit__(exc_type, exc_val, exc_tb): commit when the
\* block raised nothing, rollback otherwise, close in the finally clause,
\* return False; op_raises says whether the commit or rollback raises
DatabaseConnection_exit(self, exc_type, op_raises) ==
    IF self.conn = "None"
    THEN [self |-> self, commits |-> 0, rollbacks |-> 0, closes |-> 0,
          raised |-> "none", returned |-> FALSE]
    ELSE [self |-> [self EXCEPT !.conn = "closed"],
          commits |-> IF exc_type = "None" THEN 1 ELSE 0,
          rollbacks |-> IF exc_type = "None" THEN 0 ELSE 1,
          closes |-> 1,
          raised |-> IF op_raises THEN "OperationalError" ELSE "none",
          returned |-> FALSE]

\* the exception a with statement lets out: the one __exit__ raised, else
\* the block's own unless __exit__ returned a true value
WithPropagates(exit, exc_type) ==
    IF exit.raised # "none" THEN exit.raised
    ELSE IF exc_type # "None" /\ ~exit.returned THEN exc_type
    ELSE "none"

\* position of the with statement and what its __exit__ did
NoSession ==
    [pc |-> "idle", exc_type |-> "None", writes |-> 0, commits |-> 0,
     rollbacks |-> 0, closes |-> 0, op_raised |-> FALSE,
     propagated |-> "none"]


VARIABLES
    args,       \* the arguments of the last MertonJumpModel(...) call
    ctorErr,    \* its outcome: "unbuilt", "ok" or the exception raised
    model,      \* the instance the constructor returned (NoModel if none)
    model0,     \* copy of the instance as the constructor returned it
    gen,        \* the generator object of the stream being consumed, with
                \* the element its last next() handed to the consumer
    sim,        \* the running simulate_terminal_price call: loop position,
                \* working price, jump count and draws of the last step
    calls,      \* simulate_terminal_price calls started for this stream
    returns,    \* simulate_terminal_price calls that returned
    simErr,     \* exception raised inside simulate_terminal_price
    extra,      \* next() calls made on the finished generator
    pp,         \* the price_paths call: running total, count, result
    jdArgs,     \* arguments of the last jump_diffusion.MertonJumpModel(...)
    jdErr,      \* its outcome: "unbuilt", "ok" or the exception raised
    jd,         \* the jump_diffusion.MertonJumpModel instance
    jdRun,      \* the running simulate_path call: loop index, prices array
    jdPath,     \* the array the last simulate_path call returned
    jdGen,      \* the generator object of simulate_terminal_prices, with
                \* the element its last next() handed to the consumer
    regPc,      \* module-level statements of strategies.py already executed
    strategies, \* StrategyRegistry._strategies: key -> function or "absent"
    lastRegistered,   \* per key, the function last passed to register
    jump_mc_settings, \* StrategyRegistry.jump_mc_settings
    userRegs,   \* register calls made after the import of strategies.py
    regCall,    \* the last call on the registry or on one of its functions
    opt,        \* the EquityJumpCallOption instance (options.py)
    optCall,    \* the last operation on the option and its outcome
    trades,     \* TradeBlotter._trades
    blotCall,   \* the last operation on the blotter and its outcome
    dbc,        \* the DatabaseConnection object of the with statement
    session,    \* the with statement: position, block outcome, what
                \* __exit__ did and the exception the statement let out
    sessions,   \* with statements started
    dbOpened,   \* connections sqlite3.connect returned
    dbClosed,   \* connections closed
    dbDurable,  \* rows written by blocks whose commit succeeded
    twin,       \* two jump_diffusion.MertonJumpModel instances built with
                \* equal parameters: seed, generator state, the calls made
                \* on each and what they returned
    twinArgs,   \* the parameters both are built with
    greeks,     \* the _greeks_cache and _greeks_method attributes of the
                \* option
    greeksCall  \* the last Greeks operation on the option and its outcome

mvars == << args, ctorErr, model, model0, gen, sim, calls, returns, simErr,
            extra, pp >>
jvars == << jdArgs, jdErr, jd, jdRun, jdPath, jdGen >>
rvars == << regPc, strategies, lastRegistered, jump_mc_settings, userRegs,
            regCall >>
ovars == << opt, optCall >>
bvars == << trades, blotCall >>
dvars == << dbc, session, sessions, dbOpened, dbClosed, dbDurable >>
tvars == << twin, twinArgs >>
gvars == << greeks, greeksCall >>
yvars == << bvars, dvars, tvars >>
xvars == << yvars, gvars >>
vars == << mvars, jvars, rvars, ovars, xvars >>

TypeOK ==
    /\ args \in CtorArgs \cup {NoArgs}
    /\ ctorErr \in {"unbuilt", "ok", "PricingError", "NegativeValueError",
                    "ZeroDivisionError"}
    /\ model.exists \in BOOLEAN
    /\ gen.state \in {"none", "created", "running", "suspended", "finished"}
    /\ calls \in Nat /\ returns \in Nat /\ extra \in 0..(MaxExtraPulls + 1)
    /\ simErr \in {"none", "ValueError"}
    /\ pp.state \in {"idle", "running", "returned", "raised"}
    /\ jdArgs \in JDCtorArgs \cup {JDNoArgs}
    /\ jdErr \in {"unbuilt", "ok", "ValueError", "InvalidRangeException",
                  "NegativeValueException"}
    /\ jdGen.state \in {"none", "created", "running", "suspended", "finished"}
    /\ regPc \in 0..Len(ModuleRegistrations)
    /\ strategies \in [RegistryKeys -> ModuleFns \cup UserFns \cup {"absent"}]
    /\ jump_mc_settings.paths \in Nat
    /\ userRegs \in 0..MaxRegisters
    /\ regCall.op \in {"none", "register", "get", "default_strategy",
                       "configure_jump_mc", "invoke"}
    /\ opt.exists \in BOOLEAN
    /\ opt.price_cache.set \in BOOLEAN
    /\ optCall.op \in {"none", "create", "price", "set"}
    /\ optCall.outcome \in {"none", "returned", "ValueError",
                            "InvalidRangeException", "NegativeValueException",
                            "PricingCalculationException"}
    /\ \A i \in 1..Len(trades) : trades[i] \in ValueSet
    /\ blotCall.outcome \in {"none", "returned", "TypeError", "IndexError",
                             "AttributeError"}
    /\ dbc.conn \in {"None", "open", "closed"}
    /\ session.pc \in {"idle", "block", "exit", "left"}
    /\ sessions \in 0..MaxSessions
    /\ dbOpened \in 0..MaxSessions /\ dbClosed \in 0..MaxSessions
    /\ dbDurable \in Nat
    /\ \A k \in Instances : Len(twin[k].calls) <= MaxTwinCalls
    /\ greeks.cache \in {"missing", "None", "set"}
    /\ greeksCall.outcome \in {"none", "returned", "AttributeError",
                               "ValueError", "ZeroDivisionError"}

Init ==
    /\ args = NoArgs
    /\ ctorErr = "unbuilt"
    /\ model = NoModel
    /\ model0 = NoModel
    /\ gen = NoGen
    /\ sim = NoSim
    /\ calls = 0
    /\ returns = 0
    /\ simErr = "none"
    /\ extra = 0
    /\ pp = NoCall
    /\ jdArgs = JDNoArgs
    /\ jdErr = "unbuilt"
    /\ jd = JDNoModel
    /\ jdRun = JDNoRun
    /\ jdPath = << >>
    /\ jdGen = JDNoGen
    /\ regPc = 0
    /\ strategies = [k \in RegistryKeys |-> "absent"]
    /\ lastRegistered = [k \in RegistryKeys |-> "absent"]
    /\ jump_mc_settings = DefaultJumpMcSettings
    /\ userRegs = 0
    /\ regCall = NoRegCall
    /\ opt = NoOption
    /\ optCall = NoOptCall
    /\ trades = << >>
    /\ blotCall = NoBlotCall
    /\ dbc = DatabaseConnection_init
    /\ session = NoSession
    /\ sessions = 0
    /\ dbOpened = 0
    /\ dbClosed = 0
    /\ dbDurable = 0
    /\ twin = [k \in Instances |-> NoTwin]
    /\ twinArgs = JDNoArgs
    /\ greeks = MissingGreeks
    /\ greeksCall = NoGreeksCall

\* model = MertonJumpModel(spot, rate, volatility, jump_params, maturity, steps)
Construct ==
    /\ ctorErr = "unbuilt"
    /\ \E a \in CtorArgs :
        /\ Representable(a)
        /\ args' = a
        /\ ctorErr' = MertonInitError(a)
        /\ model' = IF MertonInitError(a) = "ok" THEN MertonInitObject(a)
                    ELSE NoModel
        /\ model0' = model'
    /\ UNCHANGED << jvars, rvars, ovars, xvars, gen, sim, calls, returns, simErr, extra, pp >>

\* gen = model.terminal_price_stream(paths) or model.payoff_stream(paths,
\* strike): calling a generator function runs none of its body
CreateStream ==
    /\ model.exists
    /\ gen.kind = "none"
    /\ pp.state = "idle"
    /\ \E kind \in {"terminal", "payoff"}, paths \in PathsSet,
          strike \in StrikeSet :
        gen' = NewGen(kind, "user", paths, strike)
    /\ UNCHANGED << jvars, rvars, ovars, xvars, args, ctorErr, model, model0, sim, calls, returns,
                    simErr, extra, pp >>

\* model.price_paths(paths, strike) up to the start of its for loop
price_paths_call ==
    /\ model.exists
    /\ gen.kind = "none"
    /\ pp.state = "idle"
    /\ \E paths \in PathsSet, strike \in StrikeSet :
        /\ gen' = NewGen("payoff", "price_paths", paths, strike)
        /\ pp' = [NoCall EXCEPT !.state = "running", !.paths = paths,
                                !.strike = Rat(strike)]
    /\ UNCHANGED << jvars, rvars, ovars, xvars, args, ctorErr, model, model0, sim, calls, returns,
                    simErr, extra >>

\* next(gen) on a generator that can run: the for loop of
\* terminal_price_stream either calls simulate_terminal_price (price =
\* self.spot) or ends, which finishes the generator (StopIteration); the for
\* loop of price_paths then ends and price_paths returns
Resume ==
    /\ gen.state \in {"created", "suspended"}
    /\ ~sim.active
    /\ IF HasNext(gen)
       THEN /\ gen' = [gen EXCEPT !.i = @ + 1, !.state = "running",
                                  !.last = Rat(0)]
            /\ sim' = [NoSim EXCEPT !.active = TRUE, !.price = model.spot]
            /\ calls' = calls + 1
            /\ pp' = pp
       ELSE /\ gen' = [gen EXCEPT !.state = "finished", !.last = Rat(0)]
            /\ pp' = IF gen.owner = "price_paths"
                     THEN [pp EXCEPT !.state = "returned",
                                     !.result = PricePathsResult(model,
                                                    pp.total, pp.count)]
                     ELSE pp
            /\ UNCHANGED << sim, calls >>
    /\ UNCHANGED << jvars, rvars, ovars, xvars, args, ctorErr, model, model0, returns, simErr,
                    extra >>

\* next(gen) on a finished generator: StopIteration, no element
ResumeExhausted ==
    /\ gen.state = "finished"
    /\ gen.owner = "user"
    /\ extra < MaxExtraPulls
    /\ gen' = ResumeFinished(gen)
    /\ extra' = extra + 1
    /\ UNCHANGED << jvars, rvars, ovars, xvars, args, ctorErr, model, model0, sim, calls, returns,
                    simErr, pp >>

\* one iteration of the loop of simulate_terminal_price
simulate_step ==
    /\ sim.active
    /\ sim.step < model.steps
    /\ LET jp == model.jump_params
           lam == RMul(Rat(jp.intensity), model.delta_t)
       IN  \E z \in Z :
            IF PoissonRaises(lam)
            THEN \* ValueError leaves simulate_terminal_price and both
                 \* generators, and price_paths when it is the consumer
                 /\ simErr' = "ValueError"
                 /\ sim' = [NoSim EXCEPT !.draws = 1]
                 /\ gen' = [gen EXCEPT !.state = "finished"]
                 /\ pp' = IF gen.owner = "price_paths"
                          THEN [pp EXCEPT !.state = "raised"] ELSE pp
            ELSE \E n \in PoissonOutcomes(lam) :
                 IF n > 0 /\ NormalRaises(jp.jump_vol)
                 THEN /\ simErr' = "ValueError"
                      /\ sim' = [NoSim EXCEPT !.draws = 2, !.jump_count = n]
                      /\ gen' = [gen EXCEPT !.state = "finished"]
                      /\ pp' = IF gen.owner = "price_paths"
                               THEN [pp EXCEPT !.state = "raised"] ELSE pp
                 ELSE \E ws \in [1..n -> W] :
                      /\ sim' = [sim EXCEPT
                              !.step = @ + 1,
                              !.price = StepPrice(model, sim.price, z,
                                                  JumpTerm(jp, ws)),
                              !.jump_count = n,
                              !.draws = StepDraws(ws)]
                      /\ UNCHANGED << simErr, gen, pp >>
    /\ UNCHANGED << jvars, rvars, ovars, xvars, args, ctorErr, model, model0, calls, returns,
                    extra >>

\* simulate_return with the working price written back to self.spot
simulate_return_StoresSpot ==
    /\ sim.active
    /\ sim.step = model.steps
    /\ LET element == Element(gen, sim.price)
       IN  /\ gen' = [gen EXCEPT !.state = "suspended", !.yielded = @ + 1,
                                 !.last = element]
           /\ pp' = IF gen.owner = "price_paths"
                    THEN [pp EXCEPT !.total = RAdd(@, element),
                                    !.count = @ + 1]
                    ELSE pp
    /\ sim' = NoSim
    /\ model' = [model EXCEPT !.spot = sim.price]
    /\ returns' = returns + 1
    /\ UNCHANGED << jvars, rvars, ovars, xvars, args, ctorErr, model0, calls, simErr, extra >>

\* return price of simulate_terminal_price, the yield of the stream, and the
\* loop body of price_paths when it is the consumer
simulate_return ==
    /\ sim.active
    /\ sim.step = model.steps
    /\ LET element == Element(gen, sim.price)
       IN  /\ gen' = [gen EXCEPT !.state = "suspended", !.yielded = @ + 1,
                                 !.last = element]
           /\ pp' = IF gen.owner = "price_paths"
                    THEN [pp EXCEPT !.total = RAdd(@, element),
                                    !.count = @ + 1]
                    ELSE pp
    /\ sim' = NoSim
    /\ returns' = returns + 1
    /\ UNCHANGED << jvars, rvars, ovars, xvars, args, ctorErr, model, model0, calls, simErr,
                    extra >>

\* the caller drops the finished stream or the finished price_paths call
\* and goes on using the same model
Discard ==
    /\ gen.state = "finished"
    /\ gen' = NoGen
    /\ sim' = NoSim
    /\ calls' = 0
    /\ returns' = 0
    /\ simErr' = "none"
    /\ extra' = 0
    /\ pp' = NoCall
    /\ UNCHANGED << jvars, rvars, ovars, xvars, args, ctorErr, model, model0 >>

Next ==
    \/ Construct
    \/ CreateStream
    \/ price_paths_call
    \/ Resume
    \/ ResumeExhausted
    \/ simulate_step
    \/ simulate_return
    \/ Discard

Spec == Init /\ [][Next]_vars

\* ------------------------------------------------------------------------
\* jump_diffusion.py: actions
\* ------------------------------------------------------------------------
\* model = MertonJumpModel(initial_price, risk_free_rate, volatility,
\*                         JumpDiffusionParams(...), time_horizon, dt)
JDConstruct ==
    /\ jdErr = "unbuilt"
    /\ \E a \in JDCtorArgs :
        /\ JDRepresentable(a)
        /\ jdArgs' = a
        /\ jdErr' = JDInitError(a)
        /\ jd' = IF JDInitError(a) = "ok" THEN JDInitObject(a) ELSE JDNoModel
    /\ UNCHANGED << mvars, rvars, ovars, xvars, jdRun, jdPath, jdGen >>

\* prices = np.zeros(num_steps + 1); prices[0] = initial_price; the array of
\* the previous call is no longer looked at
simulate_path_begin(owner) ==
    /\ jdRun' = [active |-> TRUE, owner |-> owner, i |-> 1,
                 prices |-> [Zeros(jd.num_steps + 1)
                                 EXCEPT ![1] = jd.initial_price]]
    /\ jdPath' = << >>

\* path = model.simulate_path(), called directly
JDSimulatePathCall ==
    /\ jd.exists
    /\ ~jdRun.active
    /\ jdGen.state = "none"
    /\ simulate_path_begin("user")
    /\ UNCHANGED << mvars, rvars, ovars, xvars, jdArgs, jdErr, jd, jdGen >>

\* one iteration of the loop of simulate_path (prices[0] is prices[1] here)
simulate_path_step ==
    /\ jdRun.active
    /\ jdRun.i <= jd.num_steps
    /\ \E z1 \in Z1, z2 \in Z2,
          jump_occurs \in PoissonOutcomes(RMul(Rat(jd.jump_process.intensity),
                                               jd.dt)) :
        jdRun' = [jdRun EXCEPT
                    !.i = @ + 1,
                    !.prices[jdRun.i + 1] =
                        JDStepPrice(jd, jdRun.prices[jdRun.i], z1, z2,
                                    jump_occurs)]
    /\ UNCHANGED << mvars, rvars, ovars, xvars, jdArgs, jdErr, jd, jdPath, jdGen >>

\* return prices; inside simulate_terminal_prices: terminal_price = path[-1]
\* and yield terminal_price
simulate_path_return ==
    /\ jdRun.active
    /\ jdRun.i > jd.num_steps
    /\ jdPath' = jdRun.prices
    /\ jdRun' = [jdRun EXCEPT !.active = FALSE]
    /\ jdGen' = IF jdRun.owner = "generator"
                THEN [jdGen EXCEPT !.state = "suspended", !.yielded = @ + 1,
                          !.last = jdRun.prices[Len(jdRun.prices)]]
                ELSE jdGen
    /\ UNCHANGED << mvars, rvars, ovars, xvars, jdArgs, jdErr, jd >>

\* generator = model.simulate_terminal_prices(num_simulations)
JDCreateStream ==
    /\ jd.exists
    /\ ~jdRun.active
    /\ jdGen.state = "none"
    /\ \E n \in PathsSet :
        jdGen' = [JDNoGen EXCEPT !.state = "created", !.num_simulations = n]
    /\ UNCHANGED << mvars, rvars, ovars, xvars, jdArgs, jdErr, jd, jdRun, jdPath >>

\* next(generator) on a generator that can run
JDResume ==
    /\ jdGen.state \in {"created", "suspended"}
    /\ ~jdRun.active
    /\ IF JDHasNext(jdGen)
       THEN /\ jdGen' = [jdGen EXCEPT !.i = @ + 1, !.state = "running",
                                      !.last = Rat(0)]
            /\ simulate_path_begin("generator")
       ELSE /\ jdGen' = [jdGen EXCEPT !.state = "finished", !.last = Rat(0)]
            /\ UNCHANGED << jdRun, jdPath >>
    /\ UNCHANGED << mvars, rvars, ovars, xvars, jdArgs, jdErr, jd >>

\* the caller drops the finished generator and goes on using the model
JDDiscard ==
    /\ jdGen.state = "finished"
    /\ jdGen' = JDNoGen
    /\ UNCHANGED << mvars, rvars, ovars, xvars, jdArgs, jdErr, jd, jdRun, jdPath >>

NextJD ==
    \/ JDConstruct
    \/ JDSimulatePathCall
    \/ simulate_path_step
    \/ simulate_path_return
    \/ JDCreateStream
    \/ JDResume
    \/ JDDiscard

SpecJD == Init /\ [][NextJD]_vars
\* Either module is used by a run: the streams of merton.py or those of
\* jump_diffusion.py.
NextBoth ==
    \/ (jdErr = "unbuilt" /\ Next)
    \/ (ctorErr = "unbuilt" /\ NextJD)

SpecBoth == Init /\ [][NextBoth]_vars

\* ------------------------------------------------------------------------
\* strategies.py: import of the module, then calls on StrategyRegistry
\* ------------------------------------------------------------------------
\* the import of strategies.py has run to its last statement
Imported == regPc = Len(ModuleRegistrations)

\* the next StrategyRegistry.register(...) statement of the module body
ModuleRegister ==
    /\ regPc < Len(ModuleRegistrations)
    /\ LET r == ModuleRegistrations[regPc + 1]
       IN  /\ strategies' = register(strategies, r[1], r[2])
           /\ lastRegistered' = [lastRegistered EXCEPT ![r[1]] = r[2]]
           /\ regCall' = [NoRegCall EXCEPT !.op = "register", !.key = r[1],
                                           !.fn = r[2],
                                           !.outcome = "returned"]
    /\ regPc' = regPc + 1
    /\ UNCHANGED << mvars, jvars, ovars, xvars, jump_mc_settings, userRegs >>

\* StrategyRegistry.register(name, strategy)
Register ==
    /\ Imported
    /\ userRegs < MaxRegisters
    /\ \E name \in UserKeys, strategy \in UserFns :
        /\ strategies' = register(strategies, name, strategy)
        /\ lastRegistered' = [lastRegistered EXCEPT ![name] = strategy]
        /\ regCall' = [NoRegCall EXCEPT !.op = "register", !.key = name,
                                        !.fn = strategy,
                                        !.outcome = "returned"]
    /\ userRegs' = userRegs + 1
    /\ UNCHANGED << mvars, jvars, ovars, xvars, regPc, jump_mc_settings >>

\* StrategyRegistry.get(name)
Get ==
    /\ Imported
    /\ \E name \in RegistryKeys :
        regCall' = [NoRegCall EXCEPT !.op = "get", !.key = name,
                                     !.fn = get(strategies, name).result,
                                     !.outcome = get(strategies, name).outcome]
    /\ UNCHANGED << mvars, jvars, ovars, xvars, regPc, strategies, lastRegistered,
                    jump_mc_settings, userRegs >>

\* StrategyRegistry.default_strategy()
DefaultStrategy ==
    /\ Imported
    /\ regCall' = [NoRegCall EXCEPT !.op = "default_strategy",
                                    !.key = _default_key,
                                    !.fn = default_strategy(strategies).result,
                                    !.outcome =
                                        default_strategy(strategies).outcome]
    /\ UNCHANGED << mvars, jvars, ovars, xvars, regPc, strategies, lastRegistered,
                    jump_mc_settings, userRegs >>

\* StrategyRegistry.configure_jump_mc(paths=..., intensity=..., ...)
ConfigureJumpMc ==
    /\ Imported
    /\ \E a \in ConfigureArgSet :
        jump_mc_settings' = configure_jump_mc(jump_mc_settings, a)
    /\ regCall' = [NoRegCall EXCEPT !.op = "configure_jump_mc",
                                    !.outcome = "returned"]
    /\ UNCHANGED << mvars, jvars, ovars, xvars, regPc, strategies, lastRegistered,
                    userRegs >>

\* the keys whose strategy the callers look up and call
InvokeKeys == {"black_scholes", "jump_mc", "trinomial tree"}

\* StrategyRegistry.get(name)(option) for a function of strategies.py
Invoke ==
    /\ Imported
    /\ \E name \in InvokeKeys, option \in StrategyOptionSet,
          estimate \in EstimateSet :
        LET fn == strategies[name]
        IN  /\ fn \in ModuleFns
            /\ fn = "black_scholes_strategy" => Degenerate(option)
            /\ regCall' =
                 [op |-> "invoke", key |-> name, fn |-> fn,
                  outcome |-> "returned", option |-> option,
                  run |-> CASE fn = "black_scholes_strategy" ->
                                   black_scholes_strategy(option)
                            [] fn = "jump_diffusion_mc_strategy" ->
                                   jump_diffusion_mc_strategy(option, estimate)
                            [] OTHER -> quant_team_stub(option)]
    /\ UNCHANGED << mvars, jvars, ovars, xvars, regPc, strategies, lastRegistered,
                    jump_mc_settings, userRegs >>

NextRegistry ==
    \/ ModuleRegister
    \/ Register
    \/ Get
    \/ DefaultStrategy
    \/ ConfigureJumpMc
    \/ Invoke

SpecRegistry == Init /\ [][NextRegistry]_vars

\* ------------------------------------------------------------------------
\* factory.py, options.py: an option is created, priced and modified
\* ------------------------------------------------------------------------
\* option = OptionFactory.create_equity_jump_call(...)
OptionCreate ==
    /\ ~opt.exists
    /\ \E a \in OptionArgSet :
        /\ opt' = IF OptionCreateError(a) = "ok" THEN OptionObject(a)
                  ELSE NoOption
        /\ optCall' = [NoOptCall EXCEPT
                          !.op = "create",
                          !.outcome = IF OptionCreateError(a) = "ok"
                                      THEN "returned"
                                      ELSE OptionCreateError(a)]
        /\ greeks' = IF OptionCreateError(a) = "ok" THEN GreeksAfterInit
                     ELSE MissingGreeks
    /\ greeksCall' = NoGreeksCall
    /\ UNCHANGED << mvars, jvars, rvars, yvars >>

\* option.price(method), option(method)
OptionPrice ==
    /\ opt.exists
    /\ \E method \in MethodSet, estimate \in OptEstimateSet :
        LET r == option_price(opt, method, estimate)
        IN  /\ opt' = r.opt
            /\ optCall' = [NoOptCall EXCEPT !.op = "price",
                                            !.method = method,
                                            !.outcome = r.outcome,
                                            !.result = r.result]
    /\ UNCHANGED << mvars, jvars, rvars, xvars >>

\* option.spot = value, option.strike = value,
\* option.time_to_maturity = value
OptionSetPositive ==
    /\ opt.exists
    /\ \E attr \in {"spot", "strike", "time_to_maturity"},
          value \in {-1, 0, 2} :
        LET r == set_positive(opt, attr, value)
        IN  /\ opt' = r.opt
            /\ optCall' = [NoOptCall EXCEPT !.op = "set", !.attr = attr,
                                            !.value = value,
                                            !.outcome = r.outcome]
    /\ UNCHANGED << mvars, jvars, rvars, xvars >>

\* option.risk_free_rate = value, option.volatility = value
OptionSetNonNegative ==
    /\ opt.exists
    /\ \E attr \in {"risk_free_rate", "volatility"}, value \in {-1, 1} :
        LET r == set_non_negative(opt, attr, value)
        IN  /\ opt' = r.opt
            /\ optCall' = [NoOptCall EXCEPT !.op = "set", !.attr = attr,
                                            !.value = value,
                                            !.outcome = r.outcome]
    /\ UNCHANGED << mvars, jvars, rvars, xvars >>

NextOption ==
    \/ OptionCreate
    \/ OptionPrice
    \/ OptionSetPositive
    \/ OptionSetNonNegative

SpecOption == Init /\ [][NextOption]_vars

\* ------------------------------------------------------------------------
\* trade_blotter.py: calls on one TradeBlotter
\* ------------------------------------------------------------------------
\* blotter.append(value)
BlotterAppend ==
    /\ Len(trades) < MaxTrades
    /\ \E value \in ValueSet :
        LET r == TradeBlotter_append(trades, value)
        IN  /\ trades' = r.trades
            /\ blotCall' = [NoBlotCall EXCEPT !.op = "append",
                                              !.value = value,
                                              !.outcome = r.outcome]
    /\ UNCHANGED << mvars, jvars, rvars, ovars, dvars, tvars, gvars >>

\* blotter.extend(values)
BlotterExtend ==
    /\ Len(trades) + 2 <= MaxTrades
    /\ \E values \in ExtendSet :
        LET r == TradeBlotter_extend(trades, values)
        IN  /\ trades' = r.trades
            /\ blotCall' = [NoBlotCall EXCEPT !.op = "extend",
                                              !.values = values,
                                              !.outcome = r.outcome]
    /\ UNCHANGED << mvars, jvars, rvars, ovars, dvars, tvars, gvars >>

\* blotter.insert(index, value)
BlotterInsert ==
    /\ Len(trades) < MaxTrades
    /\ \E index \in IndexSet, value \in ValueSet :
        LET r == TradeBlotter_insert(trades, index, value)
        IN  /\ trades' = r.trades
            /\ blotCall' = [NoBlotCall EXCEPT !.op = "insert",
                                              !.index = index,
                                              !.value = value,
                                              !.outcome = r.outcome]
    /\ UNCHANGED << mvars, jvars, rvars, ovars, dvars, tvars, gvars >>

\* blotter[index] = value
BlotterSetItem ==
    /\ \E index \in IndexSet, value \in ValueSet :
        LET r == TradeBlotter_setitem(trades, index, value)
        IN  /\ trades' = r.trades
            /\ blotCall' = [NoBlotCall EXCEPT !.op = "setitem",
                                              !.index = index,
                                              !.value = value,
                                              !.outcome = r.outcome]
    /\ UNCHANGED << mvars, jvars, rvars, ovars, dvars, tvars, gvars >>

\* del blotter[index]
BlotterDelItem ==
    /\ \E index \in IndexSet :
        LET r == TradeBlotter_delitem(trades, index)
        IN  /\ trades' = r.trades
            /\ blotCall' = [NoBlotCall EXCEPT !.op = "delitem",
                                              !.index = index,
                                              !.outcome = r.outcome]
    /\ UNCHANGED << mvars, jvars, rvars, ovars, dvars, tvars, gvars >>

\* blotter.clear_all(): self._trades.clear()
BlotterClearAll ==
    /\ trades' = << >>
    /\ blotCall' = [NoBlotCall EXCEPT !.op = "clear_all",
                                      !.outcome = "returned"]
    /\ UNCHANGED << mvars, jvars, rvars, ovars, dvars, tvars, gvars >>

\* len(blotter): len(self._trades)
BlotterLen ==
    /\ blotCall' = [NoBlotCall EXCEPT !.op = "len", !.outcome = "returned",
                                      !.result = Rat(Len(trades))]
    /\ UNCHANGED << mvars, jvars, rvars, ovars, dvars, tvars, gvars, trades >>

\* blotter.sum_notional()
BlotterSumNotional ==
    /\ blotCall' = [NoBlotCall EXCEPT
                       !.op = "sum_notional",
                       !.outcome = sum_notional(trades).outcome,
                       !.result = sum_notional(trades).result]
    /\ UNCHANGED << mvars, jvars, rvars, ovars, dvars, tvars, gvars, trades >>

NextBlotter ==
    \/ BlotterAppend
    \/ BlotterExtend
    \/ BlotterInsert
    \/ BlotterSetItem
    \/ BlotterDelItem
    \/ BlotterClearAll
    \/ BlotterLen
    \/ BlotterSumNotional

SpecBlotter == Init /\ [][NextBlotter]_vars

\* ------------------------------------------------------------------------
\* context_managers.py: with DatabaseConnection(db_path) as conn: block
\* ------------------------------------------------------------------------
\* the with statement builds the manager and calls __enter__; when
\* __enter__ raises, neither the block nor __exit__ runs
DbEnter ==
    /\ session.pc \in {"idle", "left"}
    /\ sessions < MaxSessions
    /\ \E connect_ok \in BOOLEAN :
        LET r == DatabaseConnection_enter(DatabaseConnection_init, connect_ok)
        IN  /\ dbc' = r.self
            /\ dbOpened' = dbOpened + (IF connect_ok THEN 1 ELSE 0)
            /\ session' = IF r.raised = "none"
                          THEN [NoSession EXCEPT !.pc = "block"]
                          ELSE [NoSession EXCEPT !.pc = "left",
                                                 !.propagated = r.raised]
    /\ sessions' = sessions + 1
    /\ UNCHANGED << mvars, jvars, rvars, ovars, bvars, tvars, gvars, dbClosed, dbDurable >>

\* the block runs on the open connection: it writes some rows and ends
\* normally or with an exception
DbBlock ==
    /\ session.pc = "block"
    /\ \E exc_type \in BlockExcSet, writes \in {0, 1} :
        session' = [session EXCEPT !.pc = "exit", !.exc_type = exc_type,
                                   !.writes = writes]
    /\ UNCHANGED << mvars, jvars, rvars, ovars, bvars, tvars, gvars, dbc, sessions,
                    dbOpened, dbClosed, dbDurable >>

\* leaving the block calls __exit__ with the block's exception
DbExit ==
    /\ session.pc = "exit"
    /\ \E op_raises \in BOOLEAN :
        LET r == DatabaseConnection_exit(dbc, session.exc_type, op_raises)
        IN  /\ dbc' = r.self
            /\ dbClosed' = dbClosed + r.closes
            /\ dbDurable' = dbDurable +
                   (IF r.commits = 1 /\ ~op_raises THEN session.writes ELSE 0)
            /\ session' = [session EXCEPT
                              !.pc = "left",
                              !.commits = r.commits,
                              !.rollbacks = r.rollbacks,
                              !.closes = r.closes,
                              !.op_raised = op_raises,
                              !.propagated =
                                  WithPropagates(r, session.exc_type)]
    /\ UNCHANGED << mvars, jvars, rvars, ovars, bvars, tvars, gvars, sessions, dbOpened >>

NextDb ==
    \/ DbEnter
    \/ DbBlock
    \/ DbExit

SpecDb == Init /\ [][NextDb]_vars

\* ------------------------------------------------------------------------
\* jump_diffusion.py: two instances built with equal parameters
\* ------------------------------------------------------------------------
\* MertonJumpModel(..., seed=seed) for instance k; the second instance gets
\* the parameters of the first
TwinConstruct(k) ==
    /\ ~twin[k].exists
    /\ \E a \in TwinArgSet, seed \in SeedSet, entropy \in EntropySet :
        /\ (\E j \in Instances : twin[j].exists) => a = twinArgs
        /\ JDInitError(a) = "ok"
        /\ JDRepresentable(a)
        /\ twinArgs' = a
        /\ twin' = [twin EXCEPT ![k] =
                       [NoTwin EXCEPT !.exists = TRUE,
                                      !.seed = seed,
                                      !.model = JDInitObject(a),
                                      !.rng = default_rng(seed, entropy)]]
    /\ UNCHANGED << mvars, jvars, rvars, ovars, bvars, dvars, gvars >>

\* model.simulate_path() on instance k
TwinSimulatePath(k) ==
    /\ twin[k].exists
    /\ Len(twin[k].calls) < MaxTwinCalls
    /\ LET r == simulate_path(twin[k].model, twin[k].rng)
       IN  twin' = [twin EXCEPT
                       ![k].rng = r.rng,
                       ![k].calls = Append(@, [op |-> "simulate_path",
                                               num_simulations |-> 0]),
                       ![k].results = Append(@, r.prices)]
    /\ UNCHANGED << mvars, jvars, rvars, ovars, bvars, dvars, gvars, twinArgs >>

\* list(model.simulate_terminal_prices(num_simulations)) on instance k
TwinTerminalPrices(k) ==
    /\ twin[k].exists
    /\ Len(twin[k].calls) < MaxTwinCalls
    /\ \E c \in TwinCallSet :
        /\ c.op = "simulate_terminal_prices"
        /\ LET r == simulate_terminal_prices(twin[k].model, twin[k].rng,
                                             c.num_simulations)
           IN  twin' = [twin EXCEPT ![k].rng = r.rng,
                                    ![k].calls = Append(@, c),
                                    ![k].results = Append(@, r.prices)]
    /\ UNCHANGED << mvars, jvars, rvars, ovars, bvars, dvars, gvars, twinArgs >>

NextSeed ==
    \/ \E k \in Instances : TwinConstruct(k)
    \/ \E k \in Instances : TwinSimulatePath(k)
    \/ \E k \in Instances : TwinTerminalPrices(k)

SpecSeed == Init /\ [][NextSeed]_vars

\* ------------------------------------------------------------------------
\* greeks_mixin.py, options.py: the Greeks of the option are asked for
\* ------------------------------------------------------------------------
\* option.delta, option.rho
GreekRead ==
    /\ opt.exists
    /\ \E name \in GreekPropertySet :
        LET r == Greek_property(opt, greeks, name)
        IN  /\ greeks' = r.greeks
            /\ greeksCall' = [NoGreeksCall EXCEPT
                                 !.op = name,
                                 !.outcome = r.outcome,
                                 !.result = IF r.outcome = "returned"
                                            THEN r.greeks[name]
                                            ELSE Rat(0)]
    /\ UNCHANGED << mvars, jvars, rvars, ovars, yvars >>

\* option.calculate_greeks(method)
CalculateGreeks ==
    /\ opt.exists
    /\ \E method \in GreeksMethodSet :
        LET r == EquityJumpCallOption_calculate_greeks(opt, greeks, method)
        IN  /\ greeks' = r.greeks
            /\ greeksCall' = [NoGreeksCall EXCEPT
                                 !.op = "calculate_greeks",
                                 !.method = method,
                                 !.outcome = r.outcome,
                                 !.result = IF r.outcome = "returned"
                                            THEN r.greeks.delta
                                            ELSE Rat(0)]
    /\ UNCHANGED << mvars, jvars, rvars, ovars, yvars >>

NextGreeks ==
    \/ OptionCreate
    \/ OptionSetPositive
    \/ OptionSetNonNegative
    \/ GreekRead
    \/ CalculateGreeks

SpecGreeks == Init /\ [][NextGreeks]_vars

\* ------------------------------------------------------------------------
\* Properties
\* ------------------------------------------------------------------------

\* C1: a stream created for N paths is single-pass: once all N elements have
\* been drained and the generator has finished, a later next() leaves it
\* finished, yields no element, does not move the loop back and starts no
\* further simulate_terminal_price call.
C1_SinglePass ==
    [][(gen.state = "finished" /\ gen.yielded = gen.paths
            /\ gen'.kind # "none")
        => (/\ gen'.state = "finished"
            /\ gen'.yielded = gen.yielded
            /\ gen'.i = gen.i
            /\ calls' = calls
            /\ ~sim'.active)]_vars

\* a payoff stream of N >= 1 paths was drained and then iterated again
C1_Witness ==
    /\ gen.kind = "payoff"
    /\ gen.paths >= 1
    /\ gen.state = "finished"
    /\ gen.yielded = gen.paths
    /\ extra >= 1

C3_Lazy ==
    (gen.kind # "none" /\ ~sim.active) =>
        /\ calls = gen.yielded
        /\ returns = gen.yielded
        /\ Remaining(gen) = gen.paths - gen.yielded

\* C4: the working price of simulate_terminal_price is strictly positive
\* after every update of the loop, on every instance the constructor returns.
C4_PricePositive ==
    (sim.active /\ sim.step >= 1) => RPos(sim.price)

\* C5: simulate_path returns num_steps + 1 prices, the first equal to
\* initial_price, all strictly positive.
C5_PathPositive ==
    jdPath # << >> =>
        /\ Len(jdPath) = jd.num_steps + 1
        /\ jdPath[1] = jd.initial_price
        /\ \A k \in 1..Len(jdPath) : RPos(jdPath[k])

\* C6: price_paths with path count 0 returns no price.
C6_ZeroPathsFails ==
    pp.state = "returned" => pp.paths >= 1

\* C7: MertonJumpModel(...) with maturity <= 0 or steps <= 0 fails with
\* PricingError or NegativeValueError raised by the constructor, never with
\* ZeroDivisionError, and leaves no instance.
C7_MaturityStepsRejected ==
    (ctorErr # "unbuilt" /\ (args.maturity <= 0 \/ args.steps <= 0)) =>
        /\ ctorErr \in {"PricingError", "NegativeValueError"}
        /\ ~model.exists

\* steps = 0 with every other argument valid: rejected by PositiveInt
C7_Witness ==
    /\ ctorErr = "NegativeValueError"
    /\ args.steps = 0
    /\ args.maturity > 0
    /\ args.spot > 0 /\ args.rate >= 0 /\ args.volatility >= 0

\* C8: MertonJumpModel(...) with spot <= 0 or a negative rate, volatility,
\* jump intensity or jump volatility fails; no instance holds such a value.
C8_InvalidRejected ==
    (ctorErr # "unbuilt"
        /\ (\/ args.spot <= 0 \/ args.rate < 0 \/ args.volatility < 0
            \/ args.jump_params.intensity < 0
            \/ args.jump_params.jump_vol < 0)) =>
        /\ ctorErr # "ok"
        /\ ~model.exists

\* C9: on an instance the constructor returned no simulate_terminal_price
\* call and no price_paths call raises.
C9_NoDeferredError ==
    /\ simErr = "none"
    /\ pp.state # "raised"

\* C10: the instance keeps the field values the constructor gave it through
\* every simulate_terminal_price, stream and price_paths call, and every
\* path starts with its working price equal to spot.
C10_ModelUnchanged ==
    /\ model = model0
    /\ (sim.active /\ sim.step = 0) => sim.price = model0.spot

\* two paths of a terminal price stream have been simulated and the last
\* terminal price differs from spot
C10_Witness ==
    /\ gen.kind = "terminal"
    /\ returns >= 2
    /\ gen.last # model.spot
    /\ gen.state = "suspended"

\* ------------------------------------------------------------------------
\* C11: for every key k, StrategyRegistry.get(k) returns the function most
\* recently passed to register(k, ...), and registering a function under
\* one key leaves the function get returns for every other key unchanged.
\* ------------------------------------------------------------------------
C11_GetReturnsLastRegistered ==
    [][ /\ (regCall'.op = "get" /\ lastRegistered[regCall'.key] # "absent")
            => /\ regCall'.outcome = "returned"
               /\ regCall'.fn = lastRegistered[regCall'.key]
        /\ regCall'.op = "register"
            => \A k \in RegistryKeys \ {regCall'.key} :
                   get(strategies', k) = get(strategies, k) ]_vars

\* get("black_scholes") has returned the caller's function, registered over
\* the one of the module, after two register calls of the caller
C11_Witness ==
    /\ regCall.op = "get"
    /\ regCall.key = "black_scholes"
    /\ regCall.fn = "user_strategy"
    /\ userRegs = 2
    /\ strategies["jump_mc"] = "jump_diffusion_mc_strategy"

\* ------------------------------------------------------------------------
\* C12: get with a key that was never registered fails with an
\* UnknownStrategy error, returns no function and leaves the registry
\* contents unchanged.
\* ------------------------------------------------------------------------
C12_UnknownStrategy ==
    [][ (regCall'.op = "get" /\ lastRegistered[regCall'.key] = "absent")
            => /\ regCall'.outcome = "UnknownStrategy"
               /\ regCall'.fn = "none"
               /\ strategies' = strategies ]_vars

\* ------------------------------------------------------------------------
\* C13: once the module-level registrations have run, whatever register and
\* configure_jump_mc calls follow, the default key is registered:
\* default_strategy() does not fail and returns the function that
\* get(default key) returns.
\* ------------------------------------------------------------------------
C13_DefaultRegistered ==
    Imported =>
        /\ strategies[_default_key] # "absent"
        /\ default_strategy(strategies).outcome = "returned"
        /\ default_strategy(strategies) = get(strategies, _default_key)
        /\ regCall.op = "default_strategy"
            => /\ regCall.outcome = "returned"
               /\ regCall.fn = get(strategies, _default_key).result

\* default_strategy() has returned the function a caller registered over the
\* module's one, after configure_jump_mc changed the settings
C13_Witness ==
    /\ regCall.op = "default_strategy"
    /\ regCall.fn = "user_strategy"
    /\ userRegs >= 1
    /\ jump_mc_settings # DefaultJumpMcSettings

\* ------------------------------------------------------------------------
\* C14: black_scholes_strategy with maturity <= 0 or volatility <= 0 returns
\* price max(spot - strike, 0) and a Greeks mapping in which delta is 1 if
\* spot > strike and 0 otherwise and gamma, vega, theta and rho are all
\* present with value 0.
\* ------------------------------------------------------------------------
C14_DegenerateGreeks ==
    (/\ regCall.op = "invoke"
     /\ regCall.fn = "black_scholes_strategy"
     /\ Degenerate(regCall.option))
    => /\ regCall.run.outcome = "returned"
       /\ regCall.run.price =
              RMax(Rat(regCall.option.spot - regCall.option.strike), Rat(0))
       /\ "delta" \in DOMAIN regCall.run.greeks
       /\ regCall.run.greeks["delta"] =
              (IF regCall.option.spot > regCall.option.strike THEN Rat(1)
               ELSE Rat(0))
       /\ \A k \in {"gamma", "vega", "theta", "rho"} :
              /\ k \in DOMAIN regCall.run.greeks
              /\ regCall.run.greeks[k] = Rat(0)

\* ------------------------------------------------------------------------
\* C15: after configure_jump_mc(paths=P), calling the strategy registered
\* under "jump_mc" simulates exactly P paths, with the configured intensity,
\* mean jump and jump volatility.
\* ------------------------------------------------------------------------
C15_ConfiguredPaths ==
    (/\ regCall.op = "invoke"
     /\ regCall.key = "jump_mc"
     /\ regCall.fn = "jump_diffusion_mc_strategy"
     /\ regCall.run.outcome = "returned")
    => /\ regCall.run.paths = jump_mc_settings.paths
       /\ regCall.run.jump_params =
              JumpParameters(jump_mc_settings.intensity,
                             jump_mc_settings.mean_jump,
                             jump_mc_settings.jump_vol)

\* ------------------------------------------------------------------------
\* C16: for N >= 1, price_paths(N, strike) returns the discount factor for
\* the model's maturity times the sum of exactly N payoffs divided by N,
\* each payoff being max(S_T - strike, 0) >= 0 of one completed path counted
\* once; a value computed from fewer than N completed paths is never
\* returned as the price.
\* ------------------------------------------------------------------------
C16_PriceIsDiscountedMean ==
    [][ /\ (pp.state = "running" /\ pp'.count # pp.count)
            => /\ sim.active /\ sim.step = model.steps
               /\ returns' = returns + 1
               /\ pp'.count = pp.count + 1
               /\ RLe(Rat(0), RMax(RSub(sim.price, pp.strike), Rat(0)))
               /\ pp'.total =
                      RAdd(pp.total, RMax(RSub(sim.price, pp.strike), Rat(0)))
        /\ (pp.state = "running" /\ pp'.state = "returned" /\ pp.paths >= 1)
            => /\ pp'.count = pp.paths
               /\ returns = pp.paths
               /\ pp'.result =
                      RDiv(RMul(Exp(RNeg(RMul(model.rate,
                                              Rat(args.maturity)))),
                                pp.total),
                           Rat(pp.paths)) ]_vars

\* price_paths(2, strike) has returned a price that is neither zero nor the
\* plain sum of its two payoffs
C16_Witness ==
    /\ pp.state = "returned"
    /\ pp.paths = 2
    /\ pp.count = 2
    /\ RPos(pp.total)
    /\ pp.result # pp.total
    /\ RPos(pp.result)

\* ------------------------------------------------------------------------
\* C17: each time step of simulate_terminal_price consumes exactly 2 + n
\* pseudo-random draws, n being the jump count drawn in that step (exactly 2
\* when n = 0), and payoff_stream adds no draw of its own.
\* ------------------------------------------------------------------------
C17_DrawsPerStep ==
    [][ /\ (sim'.step = sim.step + 1 \/ (simErr' # simErr /\ sim'.draws >= 2))
            => sim'.draws = 2 + sim'.jump_count
        /\ (gen.kind = "payoff" /\ gen'.yielded = gen.yielded + 1)
            => sim'.draws = 0 ]_vars

\* ------------------------------------------------------------------------
\* C18: JumpProcess, and so jump_diffusion.MertonJumpModel built from
\* JumpDiffusionParams, accepts a negative mean log-jump size and stores the
\* value passed in; only a negative intensity or a negative std is rejected.
\* Arguments that are accepted with a zero mean are accepted with any mean.
\* ------------------------------------------------------------------------
C18_NegativeMeanAccepted ==
    (/\ jdErr # "unbuilt"
     /\ JDInitError([jdArgs EXCEPT !.jump_params.mean = 0]) = "ok")
    => /\ jdErr = "ok"
       /\ jd.jump_process.mean = jdArgs.jump_params.mean

\* ------------------------------------------------------------------------
\* C19: calling a freshly built EquityJumpCallOption with no method argument
\* prices it with its default method "jump_diffusion_mc": the call completes
\* without raising and returns a price greater than 0.
\* ------------------------------------------------------------------------
C19_FreshOptionPrices ==
    [][ (/\ optCall.op = "create" /\ optCall.outcome = "returned"
         /\ optCall'.op = "price" /\ optCall'.method = "None")
        => /\ optCall'.outcome = "returned"
           /\ opt'.last_pricing_method = "jump_diffusion_mc"
           /\ RPos(optCall'.result) ]_vars

\* ------------------------------------------------------------------------
\* C20: assigning a positive value to option.spot, strike or
\* time_to_maturity makes the property read back that value; assigning a
\* value <= 0 raises a validation error and leaves the stored value and the
\* price cache as they were before the assignment.
\* ------------------------------------------------------------------------
C20_SetterValidates ==
    [][ (/\ optCall'.op = "set"
         /\ optCall'.attr \in {"spot", "strike", "time_to_maturity"})
        => IF optCall'.value > 0
           THEN /\ optCall'.outcome = "returned"
                /\ opt'[optCall'.attr] = optCall'.value
           ELSE /\ optCall'.outcome = "InvalidRangeException"
                /\ opt'[optCall'.attr] = opt[optCall'.attr]
                /\ opt'.price_cache = opt.price_cache ]_vars

\* a non-positive assignment has raised on an option that holds a cached
\* price, and the cache and the stored value are still there
C20_Witness ==
    /\ optCall.op = "set"
    /\ optCall.attr = "spot"
    /\ optCall.value <= 0
    /\ optCall.outcome = "InvalidRangeException"
    /\ opt.price_cache.set
    /\ opt.spot > 0

\* ------------------------------------------------------------------------
\* C21: after any sequence of append, insert, item assignment, deletion and
\* clear_all on a TradeBlotter, len(blotter) equals the number of trades
\* currently held, append places the trade at the last index, and
\* sum_notional() equals the sum over the trades currently held of
\* |order quantity| x fill_price.
\* ------------------------------------------------------------------------
C21_LenAndNotional ==
    /\ blotCall.op = "len" => blotCall.result = Rat(CountTrades(trades))
    /\ (blotCall.op = "append" /\ blotCall.outcome = "returned")
        => trades[Len(trades)] = blotCall.value
    /\ blotCall.op = "sum_notional"
        => /\ blotCall.outcome = "returned"
           /\ blotCall.result = NotionalOfTrades(trades)

\* ------------------------------------------------------------------------
\* C29: a TradeBlotter holds only Trade objects: after any sequence of
\* append, extend, insert and item assignment each element is a Trade, and
\* an attempt to store a non-Trade raises TypeError and leaves the contents
\* unchanged.
\* ------------------------------------------------------------------------
C29_OnlyTrades ==
    [][ /\ \A i \in 1..Len(trades') : IsTrade(trades'[i])
        /\ (/\ blotCall'.op \in {"append", "insert", "setitem"}
            /\ ~IsTrade(blotCall'.value)
            /\ blotCall'.outcome # "IndexError")
            => (blotCall'.outcome = "TypeError" /\ trades' = trades)
        /\ (/\ blotCall'.op = "extend"
            /\ \E i \in 1..Len(blotCall'.values) :
                   ~IsTrade(blotCall'.values[i]))
            => (blotCall'.outcome = "TypeError" /\ trades' = trades) ]_vars

\* C22: every connection opened by DatabaseConnection.__enter__ is closed
\* by __exit__: once the with statement is left no connection stays open;
\* __exit__ made exactly one of commit (the block raised nothing) and
\* rollback (the block raised), closed the connection even when that
\* commit or rollback raised, and an exception of the block is never
\* swallowed
C22_ExitClosesConnection ==
    /\ dbOpened = dbClosed + (IF session.pc \in {"block", "exit"} THEN 1 ELSE 0)
    /\ (session.pc = "left" /\ dbc.conn # "None")
        => /\ dbc.conn = "closed"
           /\ session.closes = 1
           /\ session.commits + session.rollbacks = 1
           /\ session.commits = 1 <=> session.exc_type = "None"
           /\ session.exc_type # "None" => session.propagated # "none"
           /\ (session.exc_type # "None" /\ ~session.op_raised)
               => session.propagated = session.exc_type

\* a block raised, the rollback raised too, and the connection is closed
C22_Witness ==
    /\ session.pc = "left"
    /\ session.exc_type = "ValueError"
    /\ session.rollbacks = 1
    /\ session.op_raised
    /\ dbc.conn = "closed"
    /\ sessions = MaxSessions

\* C23: every jump_diffusion.MertonJumpModel whose construction succeeded
\* has num_steps >= 1 and dt > 0; arguments with dt > time_horizon, which
\* give zero steps, are rejected by the constructor, so that no returned
\* path consists of initial_price alone
C23_AtLeastOneStep ==
    /\ jd.exists => (jd.num_steps >= 1 /\ RPos(jd.dt))
    /\ (jdErr # "unbuilt" /\ jdArgs.dt > jdArgs.time_horizon) => jdErr # "ok"
    /\ jdPath # << >> => Len(jdPath) >= 2

C25_CacheInvalidation ==
    [][ /\ (optCall'.op = "set" /\ optCall'.outcome = "returned")
            => ~opt'.price_cache.set
        /\ (optCall'.op = "price" /\ optCall'.outcome = "returned")
            => LET method == IF optCall'.method = "None"
                             THEN opt.default_pricing_method
                             ELSE optCall'.method
               IN  IF opt.price_cache.set /\ opt.last_pricing_method = method
                   THEN /\ optCall'.result = opt.price_cache.value
                        /\ opt' = opt
                   ELSE /\ opt'.price_cache =
                               [set |-> TRUE, value |-> optCall'.result]
                        /\ opt'.last_pricing_method = method
                        /\ method = "lsmc"
                            => optCall'.result = LSMC_calculate_price(opt)
        /\ (opt'.price_cache.set /\ opt'.last_pricing_method = "lsmc")
            => opt'.price_cache.value = LSMC_calculate_price(opt') ]_vars

\* an option whose spot and rate were assigned after creation has been
\* priced again with lsmc, on the new values
C25_Witness ==
    /\ optCall.op = "price" /\ optCall.method = "lsmc"
    /\ optCall.outcome = "returned"
    /\ opt.spot = 2 /\ opt.risk_free_rate = 1
    /\ opt.price_cache = [set |-> TRUE, value |-> LSMC_calculate_price(opt)]

\* C26: a jump-diffusion pricing that computes a value uses a Merton model
\* whose initial price, rate, volatility and horizon are the option's
\* current spot, risk_free_rate, volatility and time_to_maturity, also
\* after these have been assigned
C26_ModelFollowsOption ==
    [][ (/\ optCall'.op = "price" /\ optCall'.outcome = "returned"
         /\ opt'.last_pricing_method = "jump_diffusion_mc"
         /\ ~(opt.price_cache.set
              /\ opt.last_pricing_method = "jump_diffusion_mc"))
        => /\ opt'.merton_model.exists
           /\ opt'.merton_model.initial_price = opt'.spot
           /\ opt'.merton_model.risk_free_rate = opt'.risk_free_rate
           /\ opt'.merton_model.volatility = opt'.volatility
           /\ opt'.merton_model.time_horizon = opt'.time_to_maturity ]_vars

\* C27: price("JUMP_DIFFUSION_MC") runs the algorithm of
\* price("jump_diffusion_mc"): on an option with no cached price it has the
\* outcome, a result and the Merton model that the lower-case call has
C27_MethodCaseInsensitive ==
    [][ (/\ optCall'.op = "price" /\ optCall'.method = "JUMP_DIFFUSION_MC"
         /\ ~opt.price_cache.set)
        => \E estimate \in OptEstimateSet :
              LET r == option_price(opt, "jump_diffusion_mc", estimate)
              IN  /\ optCall'.outcome = r.outcome
                  /\ optCall'.result = r.result
                  /\ opt'.merton_model = r.opt.merton_model ]_vars

\* C28: a price call that fails raises PricingCalculationException and
\* leaves the cached price and the last-pricing-method marker as they
\* were; the next price call with the method of the cached value returns
\* that value
C28_FailureKeepsCache ==
    [][ /\ (optCall'.op = "price" /\ optCall'.outcome # "returned")
            => /\ optCall'.outcome = "PricingCalculationException"
               /\ opt'.price_cache = opt.price_cache
               /\ opt'.last_pricing_method = opt.last_pricing_method
        /\ (/\ optCall.op = "price" /\ optCall.outcome # "returned"
            /\ opt.price_cache.set
            /\ optCall'.op = "price"
            /\ optCall'.method = opt.last_pricing_method)
            => /\ optCall'.outcome = "returned"
               /\ optCall'.result = opt.price_cache.value ]_vars

\* a jump-diffusion pricing failed on an option holding an lsmc price
C28_Witness ==
    /\ optCall.op = "price" /\ optCall.method = "jump_diffusion_mc"
    /\ optCall.outcome = "PricingCalculationException"
    /\ opt.price_cache.set
    /\ opt.last_pricing_method = "lsmc"

\* C30: on an EquityJumpCallOption whose Greeks have not been calculated
\* yet, reading a Greek property or calling calculate_greeks() with no
\* method never raises AttributeError for a missing Greeks cache or default
\* Greeks method; where the analytical formulas are defined (volatility
\* above zero) it returns, and what it returns was computed with the
\* default "analytical" method
C30_GreeksInitialised ==
    [][ (/\ \/ greeksCall'.op \in GreekPropertySet
            \/ (greeksCall'.op = "calculate_greeks"
                /\ greeksCall'.method = "None")
         /\ greeks.cache # "set")
        => /\ greeksCall'.outcome # "AttributeError"
           /\ opt.volatility > 0 => greeksCall'.outcome = "returned"
           /\ greeksCall'.outcome = "returned"
               => /\ greeks'.cache = "set"
                  /\ greeks'.computed_with = "analytical"
                  /\ greeksCall'.result \in
                         {AnalyticalGreeks(opt).delta,
                          AnalyticalGreeks(opt).rho} ]_vars

====
